---- MODULE Spec2Model ----
(***************************************************************************)
(* A model of the NOMAD upload processing and upload file store:           *)
(*  - the upload/entry process state machine with the join barrier         *)
(*    (nomad/processing/data.py, Upload and Calc),                          *)
(*  - the API handlers that start upload processes                          *)
(*    (nomad/app/v1/routers/uploads.py),                                    *)
(*  - the admin "stop --kill" command (nomad/cli/admin/uploads.py),         *)
(*  - packing of staging files into public files (nomad/files.py).          *)
(* The process framework (nomad/processing/base.py) and the datamodel are  *)
(* not part of the sources at hand; the few operators that stand for them  *)
(* follow the written specification and say so.                            *)
(***************************************************************************)
EXTENDS Integers, Sequences, FiniteSets, TLC

\* ------------------------------------------------------------------------
\* Bounds of the model
\* ------------------------------------------------------------------------
MaxRuns == 3        \* upload-level processes started on the upload
MaxRequests == 2    \* API requests that passed the "not processing" check
MaxKills == 1       \* entries force-failed by "stop --kill --calcs"
MaxBundleEntries == 1   \* entries listed in the bundle_info.json of a bundle
auxfile_cutoff == 1     \* config.auxfile_cutoff

\* ------------------------------------------------------------------------
\* ProcessStatus
\* ------------------------------------------------------------------------
READY == "READY"
PENDING == "PENDING"
RUNNING == "RUNNING"
WAITING_FOR_RESULT == "WAITING_FOR_RESULT"
SUCCESS == "SUCCESS"
FAILURE == "FAILURE"
DELETED == "DELETED"
STATUSES_PROCESSING == {PENDING, RUNNING, WAITING_FOR_RESULT}
STATUSES_NOT_PROCESSING == {READY, SUCCESS, FAILURE}

\* ------------------------------------------------------------------------
\* Uploads, mainfiles, entry ids
\* ------------------------------------------------------------------------
UploadId == "U"
OtherUploadId == "V"
Mainfiles == {"a/m1.json"}

\* utils.hash(upload_id, mainfile): an injective digest of the pair.
generate_entry_id(upload_id, mainfile) == <<upload_id, mainfile>>

EntryIds == {generate_entry_id(u, m) : u \in {UploadId, OtherUploadId}, m \in Mainfiles}

\* Keys that a nomad.yaml/json file may carry for an entry.
MetadataKeys == {"comment", "references", "calc_id", "upload_id"}

\* The names of the quantities of UserProvidableMetadata and
\* EditableUserMetadata (nomad/datamodel): the editable subset of the metadata.
EditableMetadataKeys == {"comment", "references"}

NoCalc == [exists |-> FALSE, upload_id |-> "", mainfile |-> "",
           process_status |-> "", nomad_version |-> FALSE]

\* ------------------------------------------------------------------------
\* Raw files of an upload that is packed
\* ------------------------------------------------------------------------
\* A path is a directory and a basename; the basename is the sequence of the
\* parts that startswith and endswith look at.
RawPath(dir, basename) == [dir |-> dir, basename |-> basename]

\* The paths in ascending (lexicographic) order
SortedPaths ==
    << RawPath("a", <<"POTCAR">>),
       RawPath("a", <<"POTCAR", ".stripped">>),
       RawPath("a", <<"POTCAR", "_run", ".out">>),
       RawPath("a", <<"m1", ".json">>),
       RawPath("a", <<"m2", ".json">>),
       RawPath("a", <<"shared", ".aux">>),
       RawPath("b", <<"m3", ".json">>) >>

RawPaths == {SortedPaths[i] : i \in 1..Len(SortedPaths)}

\* The files that a parser matches as mainfiles
PackMainfiles ==
    { RawPath("a", <<"m1", ".json">>), RawPath("a", <<"m2", ".json">>),
      RawPath("a", <<"POTCAR", "_run", ".out">>), RawPath("b", <<"m3", ".json">>) }

NoEntry == [exists |-> FALSE, with_embargo |-> FALSE]

NoRead == [path |-> RawPath("", <<"">>), authorized |-> FALSE, result |-> ""]

\* A predicate that restricts no file.
always_restricted_none(path) == FALSE

\* files.always_restricted: basename.startswith('POTCAR') and not
\* basename.endswith('.stripped')
always_restricted(path) ==
    /\ Head(path.basename) = "POTCAR"
    /\ path.basename[Len(path.basename)] # ".stripped"

\* os.listdir lists f before g
listed_before(order, f, g) ==
    LET index(h) == CHOOSE i \in 1..Len(SortedPaths) : SortedPaths[i] = h
    IN IF order = "ascending" THEN index(f) < index(g) ELSE index(f) > index(g)

\* calc_files that lists the whole raw directory instead of the directory of
\* the mainfile.
calc_files_all_directories(files, order, mainfile, with_cutoff) ==
    IF mainfile \notin files
    THEN [KeyError |-> TRUE, files |-> {}]
    ELSE [KeyError |-> FALSE, files |-> files]

\* StagingUploadFiles.calc_files(mainfile, with_cutoff): the mainfile and the
\* other files of its directory; with the cutoff the loop over os.listdir
\* stops after the aux file that makes file_count exceed auxfile_cutoff.
calc_files(files, order, mainfile, with_cutoff) ==
    IF mainfile \notin files
    THEN [KeyError |-> TRUE, files |-> {}]
    ELSE LET aux_files == {f \in files : f.dir = mainfile.dir /\ f # mainfile}
             listed(f) == {g \in aux_files : listed_before(order, g, f)}
             kept == IF with_cutoff
                     THEN {f \in aux_files : Cardinality(listed(f)) <= auxfile_cutoff}
                     ELSE aux_files
         IN [KeyError |-> FALSE, files |-> {mainfile} \cup kept]

Runs == 1..MaxRuns
UploadProc == "upload"
ProcIds == Runs \X ({UploadProc} \cup Mainfiles)

NoProc == [pc |-> "none", total |-> 0, has_old |-> FALSE]
DoneProc == [NoProc EXCEPT !.pc = "done"]

VARIABLES
    process_status,   \* Upload.process_status in the state store
    joined,           \* Upload.joined in the state store
    raw,              \* the mainfiles present in the staging raw directory
    calcs,            \* the Calc collection: entry id -> document
    procs,            \* the running code: <<run, "upload">> is the upload
                      \* process of that run, <<run, mainfile>> an entry task
    nruns,            \* number of upload processes started so far
    checked,          \* requests that passed _check_upload_not_processing
    cleanups,         \* executions of Upload.cleanup since the last process
                      \* was started (2 stands for "more than once")
    kills,            \* number of entries force-failed so far
    staging_raw,      \* StagingUploadFiles: the files of the raw directory
    entries,          \* mainfile -> the entry given to pack and re_pack
    listdir_order,    \* the order in which os.listdir lists a directory
    raw_zip,          \* PublicUploadFiles: the files in raw-public and
                      \* raw-restricted, once the upload is packed
    is_frozen,        \* StagingUploadFiles.is_frozen: pack has been called
    repacked,         \* PublicUploadFiles.re_pack has been called
    last_read,        \* the last call of PublicUploadFiles.raw_file
    staging_archive,  \* StagingUploadFiles: the per-entry archive files
    archive_msg,      \* PublicUploadFiles: the records of archive-public
                      \* and archive-restricted, once the upload is packed
    publish_time,     \* Upload.publish_time is not None
    embargo_length,   \* Upload.embargo_length in the state store
    upload_process,   \* the upload-level process that was started by a
                      \* handler and is run by a worker
    repacks,          \* executions of PublicUploadFiles.re_pack
    upload_name,      \* Upload.upload_name in the state store
    requests,         \* the publish and metadata requests handled so far,
                      \* each with its outcome
    upload_bundle,    \* the upload bundle at bundle_path
    target,           \* the deployment that imports the bundle: its Upload
                      \* and Calc documents, upload files, search index
                      \* and datasets
    run,              \* one processing run of an upload with its entries,
                      \* their archive files and the search index
    pack_calls,       \* where each call of StagingUploadFiles.pack stands
    public_dir,       \* the files in the public directory of the upload,
                      \* by name
    re_pack_pc,       \* where the call of PublicUploadFiles.re_pack stands
    user_uploads,     \* the number of unpublished uploads of one user
    create_requests,  \* where each post_upload request of that user stands
    calc_dir,         \* the file names of one raw directory as os.listdir
                      \* returns them
    calc_files_result, \* what the last call of calc_files has returned
    task,             \* one entry task (Calc.process_calc): its inputs, the
                      \* steps it has run, its status and its archive file
    parse_all_call,   \* one call of Upload.parse_all: the upload, the
                      \* settings, the matched files and the Calc documents
    deletion,         \* one upload with what is stored of it, and where the
                      \* delete request for it stands
    areas             \* one upload with its staging and public file areas,
                      \* and where its publish or process_upload stands

procvars == <<process_status, joined, raw, calcs, procs, nruns, checked,
              cleanups, kills>>

archivevars == <<staging_archive, archive_msg>>

pubvars == <<publish_time, embargo_length, upload_process, repacks, upload_name,
            requests>>

bundlevars == <<upload_bundle, target>>

runvars == <<run>>

stepvars == <<pack_calls, public_dir, re_pack_pc, user_uploads, create_requests,
              calc_dir, calc_files_result>>

taskvars == <<task, parse_all_call, deletion, areas>>

othervars == <<pubvars, bundlevars, runvars, stepvars, taskvars>>

packvars == <<staging_raw, entries, listdir_order, raw_zip, is_frozen, repacked,
              last_read, archivevars, othervars>>

vars == <<procvars, packvars>>

\* ------------------------------------------------------------------------
\* Queries on the state store
\* ------------------------------------------------------------------------
\* Calc.objects(upload_id=self.upload_id)
Entries == {id \in EntryIds : calcs[id].exists /\ calcs[id].upload_id = UploadId}

total_calcs == Cardinality(Entries)

processed_calcs ==
    Cardinality({id \in Entries : calcs[id].process_status \in {SUCCESS, FAILURE}})

process_running == process_status \in STATUSES_PROCESSING

\* ------------------------------------------------------------------------
\* Init
\* ------------------------------------------------------------------------
\* No upload-level process
NoProcess == [name |-> "none", embargo |-> [given |-> FALSE, value |-> 0], fields |-> {}]

\* An upload in staging without embargo, and no request handled
PublishIdle ==
    /\ publish_time = FALSE
    /\ embargo_length = 0
    /\ upload_process = NoProcess
    /\ repacks = 0
    /\ upload_name = "name"
    /\ requests = <<>>

\* No bundle at bundle_path
NoBundle == [exists |-> FALSE]

\* A deployment that knows nothing of the upload
FreshTarget ==
    [upload |-> [exists |-> FALSE], calcs |-> {}, files |-> [exists |-> FALSE],
     index |-> {}, datasets |-> {}, result |-> "none", error |-> "none",
     delete_upload_on_fail |-> FALSE, keep_original_timestamps |-> FALSE]

\* No bundle is exported or imported
BundleIdle ==
    /\ upload_bundle = NoBundle
    /\ target = FreshTarget

\* No processing run
NoRun == [pc |-> "none"]

RunIdle == run = NoRun

\* No entry task
NoTask == [pc |-> "none"]

\* parse_all is not being called
NoParseAll == [pc |-> "none"]

\* No upload is looked at for deletion
NoDeletion == [pc |-> "none"]

\* No upload is looked at for its file areas
NoAreas == [pc |-> "none"]

TaskIdle ==
    /\ task = NoTask
    /\ parse_all_call = NoParseAll
    /\ deletion = NoDeletion
    /\ areas = NoAreas

\* re_pack is not being called
NoCall == <<"none", "">>

\* calc_files was not called
NoResult == [called |-> FALSE]

\* The callers of pack and the post_upload requests that run concurrently
PackCallers == {1, 2}

CreateRequests == {1, 2, 3}

\* The files of a public upload directory, and their names during a re_pack
PublicFiles == {"raw-public", "raw-restricted", "archive-public", "archive-restricted"}

PublicFileNames == {<<file, "">> : file \in PublicFiles}

RepackedFileNames == {<<file, "repacked">> : file \in PublicFiles}

\* No call of pack or re_pack and no post_upload request is under way
StepIdle ==
    /\ pack_calls = [c \in PackCallers |-> "none"]
    /\ public_dir = [name \in PublicFileNames \cup RepackedFileNames |-> "none"]
    /\ re_pack_pc = NoCall
    /\ user_uploads = 0
    /\ create_requests = [c \in CreateRequests |-> "none"]
    /\ calc_dir = <<>>
    /\ calc_files_result = NoResult

OtherIdle == PublishIdle /\ BundleIdle /\ RunIdle /\ StepIdle /\ TaskIdle

ProcessingInit ==
    /\ process_status = READY
    /\ joined = FALSE
    /\ raw = {}
    /\ calcs = [id \in EntryIds |-> NoCalc]
    /\ procs = [p \in ProcIds |-> NoProc]
    /\ nruns = 0
    /\ checked = 0
    /\ cleanups = 0
    /\ kills = 0

\* ------------------------------------------------------------------------
\* API handlers: put_upload_raw_path, delete_upload_raw_path,
\* post_upload_action_process
\* ------------------------------------------------------------------------
\* The handler loads the upload and passes _check_upload_not_processing.
RequestCheck ==
    /\ checked < MaxRequests
    /\ ~process_running
    /\ checked' = checked + 1
    /\ UNCHANGED <<process_status, joined, raw, calcs, procs, nruns, cleanups, kills>>
    /\ UNCHANGED packvars

\* An Upload.reset that leaves joined as it is
reset_keeping_joined(was_joined) == was_joined

\* Upload.reset: "self.joined = False", then the reset of the process; the
\* value of joined on the handler's document afterwards
reset(was_joined) == FALSE

\* The @process call: a compare-and-set of process_status against the
\* processing statuses.  The handler has called upload.reset() on its copy
\* of the document (joined = False), which is what gets stored.
process_start ==
    IF process_status \notin STATUSES_PROCESSING
    THEN [accepted |-> TRUE, process_status |-> PENDING, joined |-> reset(joined)]
    ELSE [accepted |-> FALSE, process_status |-> process_status, joined |-> joined]

RequestProcess ==
    /\ checked > 0
    /\ nruns < MaxRuns
    /\ checked' = checked - 1
    /\ LET res == process_start IN
       /\ process_status' = res.process_status
       /\ joined' = res.joined
       /\ IF res.accepted
          THEN /\ nruns' = nruns + 1
               /\ procs' = [procs EXCEPT ![<<nruns + 1, UploadProc>>] =
                                [NoProc EXCEPT !.pc = "pending"]]
               /\ cleanups' = 0
          ELSE UNCHANGED <<nruns, procs, cleanups>>
    /\ UNCHANGED <<raw, calcs, kills>>
    /\ UNCHANGED packvars

\* ------------------------------------------------------------------------
\* Upload.process_upload
\* ------------------------------------------------------------------------
\* The worker picks the process up: process_status = RUNNING is persisted.
ProcessUploadBegin(r) ==
    /\ procs[<<r, UploadProc>>].pc = "pending"
    /\ process_status' = RUNNING
    /\ procs' = [procs EXCEPT ![<<r, UploadProc>>].pc = "started"]
    /\ UNCHANGED <<joined, raw, calcs, nruns, checked, cleanups, kills>>
    /\ UNCHANGED packvars

\* Upload.update_files
update_files(op, path) ==
    CASE op = "ADD" -> raw \cup {path}
      [] op = "DELETE" -> raw \ {path}
      [] OTHER -> raw

\* Upload.match_mainfiles: every file of Mainfiles is matched by a parser.
match_mainfiles(files) == files

\* First part of Upload.parse_all: match, create the new entries, delete the
\* entries that are no longer matched (the upload is not published).
parse_all_entries(cs, files) ==
    [id \in EntryIds |->
        IF \E m \in match_mainfiles(files) : id = generate_entry_id(UploadId, m)
        THEN IF cs[id].exists
             THEN cs[id]
             ELSE [exists |-> TRUE, upload_id |-> UploadId,
                   mainfile |-> (CHOOSE m \in match_mainfiles(files) :
                                     id = generate_entry_id(UploadId, m)),
                   process_status |-> PENDING, nomad_version |-> FALSE]
        ELSE IF cs[id].exists /\ cs[id].upload_id = UploadId THEN NoCalc ELSE cs[id]]

\* process_upload_local: update_files with the file operation of the
\* request, then the first part of parse_all.
ParseAllMatch(r) ==
    /\ procs[<<r, UploadProc>>].pc = "started"
    /\ \E op \in {"ADD", "DELETE", "NONE"}, path \in Mainfiles :
          /\ op = "DELETE" => path \in raw
          /\ raw' = update_files(op, path)
          /\ calcs' = parse_all_entries(calcs, raw')
    /\ procs' = [procs EXCEPT ![<<r, UploadProc>>] =
                    [@ EXCEPT !.pc = "reset", !.has_old = (Entries # {})]]
    /\ UNCHANGED <<process_status, joined, nruns, checked, cleanups, kills>>
    /\ UNCHANGED packvars

\* ------------------------------------------------------------------------
\* Upload.import_bundle
\* ------------------------------------------------------------------------
\* The entries of a bundle_info.json
BundleEntryDicts ==
    [id : EntryIds, upload_id : {UploadId, OtherUploadId}, mainfile : Mainfiles,
     process_status : {READY, RUNNING, SUCCESS, FAILURE}, nomad_version : BOOLEAN]

RECURSIVE BundlesOfSize(_)
BundlesOfSize(n) ==
    IF n = 0 THEN {{}}
    ELSE LET smaller == BundlesOfSize(n - 1)
         IN smaller \cup {b \cup {e} : b \in smaller, e \in BundleEntryDicts}

Bundles == BundlesOfSize(MaxBundleEntries)

\* An import that takes the entry id of the bundle as it is.
bundle_entry_ok_unchecked_id(entry_dict) ==
    /\ entry_dict.process_status \in STATUSES_NOT_PROCESSING
    /\ entry_dict.upload_id = UploadId

\* The assertions of import_bundle on one entry of the bundle
bundle_entry_ok(entry_dict) ==
    /\ entry_dict.process_status \in STATUSES_NOT_PROCESSING
    /\ entry_dict.upload_id = UploadId
    /\ entry_dict.id = generate_entry_id(UploadId, entry_dict.mainfile)

\* Calc.create(calc_id = entry_dict['_id'], ...) and entry.save() for every
\* entry of the bundle
import_entries(bundle) ==
    [id \in EntryIds |->
        IF \E e \in bundle : e.id = id
        THEN LET e == CHOOSE e \in bundle : e.id = id
             IN [exists |-> TRUE, upload_id |-> e.upload_id, mainfile |-> e.mainfile,
                 process_status |-> e.process_status, nomad_version |-> e.nomad_version]
        ELSE calcs[id]]

\* import_bundle on the skeleton upload made for the bundle.  A failed
\* assertion ends the process in FAILURE before anything is saved.  With
\* settings.trigger_processing the process goes on with process_upload_local
\* (no file operation, then parse_all); otherwise it ends in SUCCESS.
ImportBundle(r) ==
    /\ procs[<<r, UploadProc>>].pc = "started"
    /\ r = 1
    /\ raw = {}
    /\ \E bundle \in Bundles, trigger_processing \in BOOLEAN :
          IF \A e \in bundle : bundle_entry_ok(e)
          THEN /\ raw' = {e.mainfile : e \in bundle}
               /\ IF trigger_processing
                  THEN /\ calcs' = parse_all_entries(import_entries(bundle), raw')
                       /\ procs' = [procs EXCEPT ![<<r, UploadProc>>] =
                                       [@ EXCEPT !.pc = "reset", !.has_old = (bundle # {})]]
                       /\ UNCHANGED process_status
                  ELSE /\ calcs' = import_entries(bundle)
                       /\ procs' = [procs EXCEPT ![<<r, UploadProc>>] = DoneProc]
                       /\ process_status' = SUCCESS
          ELSE /\ process_status' = FAILURE
               /\ procs' = [procs EXCEPT ![<<r, UploadProc>>] = DoneProc]
               /\ UNCHANGED <<raw, calcs>>
    /\ UNCHANGED <<joined, nruns, checked, cleanups, kills>>
    /\ UNCHANGED packvars

\* Calc.reset_pymongo_update applied with update_many to all entries
reset_all_calcs ==
    [id \in EntryIds |->
        IF id \in Entries THEN [calcs[id] EXCEPT !.process_status = READY]
        ELSE calcs[id]]

ParseAllReset(r) ==
    /\ procs[<<r, UploadProc>>].pc = "reset"
    /\ calcs' = IF procs[<<r, UploadProc>>].has_old THEN reset_all_calcs ELSE calcs
    /\ procs' = [procs EXCEPT ![<<r, UploadProc>>] =
                    [@ EXCEPT !.pc = "dispatch", !.has_old = FALSE]]
    /\ UNCHANGED <<process_status, joined, raw, nruns, checked, cleanups, kills>>
    /\ UNCHANGED packvars

\* Calc.process_all: every entry of the upload becomes PENDING and gets a task
process_all ==
    [id \in EntryIds |->
        IF id \in Entries THEN [calcs[id] EXCEPT !.process_status = PENDING]
        ELSE calcs[id]]

ParseAllDispatch(r) ==
    /\ procs[<<r, UploadProc>>].pc = "dispatch"
    /\ calcs' = process_all
    /\ procs' = [p \in ProcIds |->
                    IF p = <<r, UploadProc>> THEN [procs[p] EXCEPT !.pc = "to_waiting"]
                    ELSE IF p[1] = r /\ generate_entry_id(UploadId, p[2]) \in Entries
                         THEN [NoProc EXCEPT !.pc = "queued"]
                         ELSE procs[p]]
    /\ UNCHANGED <<process_status, joined, raw, nruns, checked, cleanups, kills>>
    /\ UNCHANGED packvars

\* A process_upload whose on_waiting_for_result does not call check_join.
ProcessUploadWaitingNoJoin(r) ==
    /\ procs[<<r, UploadProc>>].pc = "to_waiting"
    /\ process_status' = WAITING_FOR_RESULT
    /\ procs' = [procs EXCEPT ![<<r, UploadProc>>] = DoneProc]
    /\ UNCHANGED <<joined, raw, calcs, nruns, checked, cleanups, kills>>
    /\ UNCHANGED packvars

\* process_upload_local returned WAITING_FOR_RESULT: the status is persisted
\* and on_waiting_for_result calls check_join on the same document.
ProcessUploadWaiting(r) ==
    /\ procs[<<r, UploadProc>>].pc = "to_waiting"
    /\ process_status' = WAITING_FOR_RESULT
    /\ procs' = [procs EXCEPT ![<<r, UploadProc>>].pc = "total"]
    /\ UNCHANGED <<joined, raw, calcs, nruns, checked, cleanups, kills>>
    /\ UNCHANGED packvars

\* ------------------------------------------------------------------------
\* Calc.process_calc
\* ------------------------------------------------------------------------
ProcessCalcBegin(r, m) ==
    LET id == generate_entry_id(UploadId, m) IN
    /\ procs[<<r, m>>].pc = "queued"
    /\ IF calcs[id].exists
       THEN /\ calcs' = [calcs EXCEPT ![id].process_status = RUNNING]
            /\ procs' = [procs EXCEPT ![<<r, m>>].pc = "running"]
       ELSE /\ procs' = [procs EXCEPT ![<<r, m>>] = DoneProc]
            /\ UNCHANGED calcs
    /\ UNCHANGED <<process_status, joined, raw, nruns, checked, cleanups, kills>>
    /\ UNCHANGED packvars

\* Calc._apply_metadata_from_file for one key of the metadata file: the
\* calc_id of the entry afterwards.
apply_metadata_from_file(calc_id, key, val) ==
    IF key \in EditableMetadataKeys /\ key = "calc_id" THEN val ELSE calc_id

\* Calc._check_join, self.save(): the entry is persisted under its calc_id
\* with its final status (a document that was deleted meanwhile is left out).
save_calc(id, calc_id, status) ==
    IF calcs[id].exists
    THEN [calcs EXCEPT ![calc_id] =
             [calcs[id] EXCEPT !.process_status = status, !.nomad_version = TRUE]]
    ELSE calcs

\* parsing, normalizing, archiving (which applies the user metadata of the
\* nomad.yaml/json file on the initial processing) end in SUCCESS, or a
\* ProcessFailure in FAILURE; on_success/on_fail then call _check_join,
\* which saves the entry.
ProcessCalcEnd(r, m) ==
    LET id == generate_entry_id(UploadId, m) IN
    /\ procs[<<r, m>>].pc = "running"
    /\ \E status \in {SUCCESS, FAILURE}, key \in MetadataKeys, val \in EntryIds :
          LET is_initial_processing == ~calcs[id].nomad_version
              calc_id == IF is_initial_processing
                         THEN apply_metadata_from_file(id, key, val)
                         ELSE id
          IN calcs' = save_calc(id, calc_id, status)
    /\ procs' = [procs EXCEPT ![<<r, m>>].pc = "reload"]
    /\ UNCHANGED <<process_status, joined, raw, nruns, checked, cleanups, kills>>
    /\ UNCHANGED packvars

\* Calc._check_join, self.upload.reload(), and the first conjunct of the
\* condition of check_join, which is evaluated on the reloaded document: if
\* the upload is not WAITING_FOR_RESULT, check_join only reads and returns.
CheckJoinReload(r, m) ==
    /\ procs[<<r, m>>].pc = "reload"
    /\ procs' = [procs EXCEPT ![<<r, m>>] =
                    IF process_status = WAITING_FOR_RESULT
                    THEN [@ EXCEPT !.pc = "total"]
                    ELSE DoneProc]
    /\ UNCHANGED <<process_status, joined, raw, calcs, nruns, checked, cleanups, kills>>
    /\ UNCHANGED packvars

\* ------------------------------------------------------------------------
\* Upload.check_join
\* ------------------------------------------------------------------------
\* total_calcs = self.total_calcs
CheckJoinTotal(p) ==
    /\ procs[p].pc = "total"
    /\ procs' = [procs EXCEPT ![p] = [@ EXCEPT !.pc = "processed", !.total = total_calcs]]
    /\ UNCHANGED <<process_status, joined, raw, calcs, nruns, checked, cleanups, kills>>
    /\ UNCHANGED packvars

\* processed_calcs = self.processed_calcs; processed_calcs >= total_calcs
join_condition(total) == processed_calcs >= total

CheckJoinProcessed(p) ==
    /\ procs[p].pc = "processed"
    /\ procs' = [procs EXCEPT ![p] =
                    IF join_condition(procs[p].total)
                    THEN [NoProc EXCEPT !.pc = "cas"]
                    ELSE DoneProc]
    /\ UNCHANGED <<process_status, joined, raw, calcs, nruns, checked, cleanups, kills>>
    /\ UNCHANGED packvars

\* pymongo find_one_and_update({_id, joined: {$ne: True}}, {$set: {joined: True}}):
\* the document as it was before the update, or None if none matched.
find_one_and_update ==
    IF joined # TRUE
    THEN [found |-> TRUE, joined |-> joined]
    ELSE [found |-> FALSE, joined |-> FALSE]

\* "if modified_upload is None or modified_upload['joined'] is False"
join_won(modified_upload) ==
    \/ ~modified_upload.found
    \/ modified_upload.joined = FALSE

CheckJoinCAS(p) ==
    /\ procs[p].pc = "cas"
    /\ joined' = TRUE
    /\ procs' = [procs EXCEPT ![p] =
                    IF join_won(find_one_and_update)
                    THEN [NoProc EXCEPT !.pc = "cleanup"]
                    ELSE DoneProc]
    /\ UNCHANGED <<process_status, raw, calcs, nruns, checked, cleanups, kills>>
    /\ UNCHANGED packvars

\* Upload.cleanup, then self.succeed(); an exception in cleanup is caught by
\* check_join, which calls self.fail.
CheckJoinCleanup(p) ==
    /\ procs[p].pc = "cleanup"
    /\ cleanups' = IF cleanups < 2 THEN cleanups + 1 ELSE cleanups
    /\ \E ok \in BOOLEAN : process_status' = IF ok THEN SUCCESS ELSE FAILURE
    /\ procs' = [procs EXCEPT ![p] = DoneProc]
    /\ UNCHANGED <<joined, raw, calcs, nruns, checked, kills>>
    /\ UNCHANGED packvars

\* ------------------------------------------------------------------------
\* nomad admin uploads stop --kill --calcs
\* ------------------------------------------------------------------------
\* The celery task of a processing entry is revoked and process.fail sets the
\* entry to FAILURE; on_fail calls _check_join from the command.
StopKill(r, m) ==
    LET id == generate_entry_id(UploadId, m) IN
    /\ kills < MaxKills
    /\ procs[<<r, m>>].pc \in {"queued", "running"}
    /\ calcs[id].exists
    /\ calcs[id].process_status \in STATUSES_PROCESSING
    /\ kills' = kills + 1
    /\ calcs' = save_calc(id, id, FAILURE)
    /\ procs' = [procs EXCEPT ![<<r, m>>].pc = "reload"]
    /\ UNCHANGED <<process_status, joined, raw, nruns, checked, cleanups>>
    /\ UNCHANGED packvars

\* ------------------------------------------------------------------------
Next ==
    \/ RequestCheck
    \/ RequestProcess
    \/ \E r \in Runs : ProcessUploadBegin(r)
    \/ \E r \in Runs : ParseAllMatch(r)
    \/ \E r \in Runs : ImportBundle(r)
    \/ \E r \in Runs : ParseAllReset(r)
    \/ \E r \in Runs : ParseAllDispatch(r)
    \/ \E r \in Runs : ProcessUploadWaiting(r)
    \/ \E r \in Runs, m \in Mainfiles : ProcessCalcBegin(r, m)
    \/ \E r \in Runs, m \in Mainfiles : ProcessCalcEnd(r, m)
    \/ \E r \in Runs, m \in Mainfiles : CheckJoinReload(r, m)
    \/ \E p \in ProcIds : CheckJoinTotal(p)
    \/ \E p \in ProcIds : CheckJoinProcessed(p)
    \/ \E p \in ProcIds : CheckJoinCAS(p)
    \/ \E p \in ProcIds : CheckJoinCleanup(p)
    \/ \E r \in Runs, m \in Mainfiles : StopKill(r, m)

Init ==
    /\ ProcessingInit
    /\ staging_raw = {}
    /\ entries = [m \in PackMainfiles |-> NoEntry]
    /\ listdir_order = "ascending"
    /\ raw_zip = [public |-> {}, restricted |-> {}]
    /\ is_frozen = FALSE
    /\ repacked = FALSE
    /\ last_read = NoRead
    /\ staging_archive = {}
    /\ archive_msg = [public |-> {}, restricted |-> {}]
    /\ OtherIdle

Spec == Init /\ [][Next]_vars

\* ------------------------------------------------------------------------
\* The join barrier
\* ------------------------------------------------------------------------
\* The code of an upload process between its start and its own check_join:
\* process_upload_local (update_files, parse_all) is being executed.
UploadProcessPcs == {"pending", "started", "reset", "dispatch", "to_waiting"}

ActiveUploadProcesses == {r \in Runs : procs[<<r, UploadProc>>].pc \in UploadProcessPcs}

\* C1: for one parse_all run, upload-level cleanup is executed exactly once,
\* however the check_join calls of the entries and of on_waiting_for_result
\* interleave: no second caller of the same run runs cleanup.  Stated for
\* the first run of the upload, where every caller belongs to that run.
C1_CleanupOncePerRun == nruns = 1 => cleanups <= 1

\* C2: at no time are two upload-level processes of the same upload being
\* executed: while one is, a further request is rejected and starts nothing.
C2_OneUploadProcess == Cardinality(ActiveUploadProcesses) <= 1

\* C3: joined = true implies that no entry of the upload is PENDING or RUNNING.
C3_JoinedImpliesEntriesDone ==
    joined = TRUE =>
        \A id \in Entries : calcs[id].process_status \notin {PENDING, RUNNING}

\* The steps of process_status within one run, and the start of a new
\* operation from a status that is not processing.
StatusStep(old, new) ==
    \/ old \in STATUSES_NOT_PROCESSING /\ new = PENDING
    \/ old = PENDING /\ new = RUNNING
    \/ old = RUNNING /\ new = WAITING_FOR_RESULT
    \/ old = WAITING_FOR_RESULT /\ new \in {SUCCESS, FAILURE}

\* The end of a process that does not wait for entries: import_bundle without
\* trigger_processing, or with a failed assertion.
ImportEnds ==
    \E r \in Runs :
        /\ procs[<<r, UploadProc>>].pc = "started"
        /\ procs'[<<r, UploadProc>>].pc = "done"
        /\ process_status = RUNNING
        /\ process_status' \in {SUCCESS, FAILURE}

\* C4: process_status changes only along READY -> (PENDING ->) RUNNING ->
\* WAITING_FOR_RESULT -> SUCCESS | FAILURE; it never returns from
\* WAITING_FOR_RESULT to RUNNING, never reaches SUCCESS from a status other
\* than WAITING_FOR_RESULT, and after SUCCESS or FAILURE it changes only by
\* the start of a new operation.
C4_StatusOrder ==
    [][process_status' # process_status =>
           StatusStep(process_status, process_status') \/ ImportEnds]_vars

\* ------------------------------------------------------------------------
\* Progress of the join
\* ------------------------------------------------------------------------
\* What the workers do once a process or an entry task has been dispatched:
\* every step of the upload process, of the entry tasks and of check_join.
\* Requests and the stop command are up to users and operators.
WorkerStep(p) ==
    \/ p[2] = UploadProc /\ ProcessUploadBegin(p[1])
    \/ p[2] = UploadProc /\ ParseAllMatch(p[1])
    \/ p[2] = UploadProc /\ ImportBundle(p[1])
    \/ p[2] = UploadProc /\ ParseAllReset(p[1])
    \/ p[2] = UploadProc /\ ParseAllDispatch(p[1])
    \/ p[2] = UploadProc /\ ProcessUploadWaiting(p[1])
    \/ p[2] # UploadProc /\ ProcessCalcBegin(p[1], p[2])
    \/ p[2] # UploadProc /\ ProcessCalcEnd(p[1], p[2])
    \/ p[2] # UploadProc /\ CheckJoinReload(p[1], p[2])
    \/ CheckJoinTotal(p)
    \/ CheckJoinProcessed(p)
    \/ CheckJoinCAS(p)
    \/ CheckJoinCleanup(p)

\* Every dispatched process and entry task is eventually run to its end.
FairSpec == Spec /\ \A p \in ProcIds : WF_vars(WorkerStep(p))

\* C5: an upload never wedges in WAITING_FOR_RESULT: given that every
\* dispatched entry task ends (normally or by force-fail), the upload
\* eventually reaches SUCCESS or FAILURE.
C5_NoWedge ==
    (process_status = WAITING_FOR_RESULT) ~> (process_status \in {SUCCESS, FAILURE})

\* The entry of the first run ended before the upload switched to
\* WAITING_FOR_RESULT (its task returned without joining), and the upload's
\* own on_waiting_for_result has won the join.
C5_Witness ==
    /\ nruns = 1
    /\ kills = 0
    /\ cleanups = 0
    /\ procs[<<1, UploadProc>>].pc = "cleanup"
    /\ Entries # {}
    /\ \A m \in Mainfiles : procs[<<1, m>>].pc = "done"
    /\ \A id \in Entries : calcs[id].process_status \in {SUCCESS, FAILURE}

entry_mainfiles(es, with_embargo) ==
    {m \in PackMainfiles : es[m].exists /\ es[m].with_embargo = with_embargo}

\* _pack_raw_files that leaves the mainfiles of embargoed entries in the
\* public files (step 1.2 left out).
pack_raw_files_without_removal(files, es, order) ==
    LET public_files ==
            UNION {{f \in calc_files(files, order, m, FALSE).files : ~always_restricted(f)} :
                       m \in entry_mainfiles(es, FALSE)}
    IN [public |-> public_files, restricted |-> files \ public_files]

\* _pack_raw_files that removes all files of an embargoed entry from the
\* public files, not only its mainfile.
pack_raw_files_removing_aux(files, es, order) ==
    LET public_files ==
            UNION {{f \in calc_files(files, order, m, FALSE).files : ~always_restricted(f)} :
                       m \in entry_mainfiles(es, FALSE)}
        embargoed_files ==
            UNION {calc_files(files, order, m, FALSE).files : m \in entry_mainfiles(es, TRUE)}
        remaining == public_files \ embargoed_files
    IN [public |-> remaining, restricted |-> files \ remaining]

\* _pack_raw_files that writes every raw file to raw-restricted, the public
\* ones included.
pack_raw_files_restricting_all(files, es, order) ==
    LET public_files ==
            UNION {{f \in calc_files(files, order, m, FALSE).files : ~always_restricted(f)} :
                       m \in entry_mainfiles(es, FALSE)}
        remaining == public_files \ entry_mainfiles(es, TRUE)
    IN [public |-> remaining, restricted |-> files]

\* StagingUploadFiles._pack_raw_files: 1.1 the files of all unembargoed
\* entries that are not always restricted, 1.2 without the mainfiles of the
\* embargoed entries, 1.3 are written to raw-public; 2. every other raw file
\* is written to raw-restricted.  A KeyError of calc_files is caught and
\* logged before anything has been written.
pack_raw_files(files, es, order) ==
    IF \E m \in entry_mainfiles(es, FALSE) : calc_files(files, order, m, FALSE).KeyError
    THEN [public |-> {}, restricted |-> {}]
    ELSE LET public_files ==
                 UNION {{f \in calc_files(files, order, m, FALSE).files :
                             ~always_restricted(f)} : m \in entry_mainfiles(es, FALSE)}
             remaining == public_files \ entry_mainfiles(es, TRUE)
         IN [public |-> remaining, restricted |-> files \ remaining]

\* An archive record: the entry id (here the mainfile that it hashes) and
\* the data; "{}" is the empty dict.
ArchiveRecord(calc_id, data) == [calc_id |-> calc_id, data |-> data]

\* The entries whose archive file may be missing in the staging files
MayLackArchive == {RawPath("b", <<"m3", ".json">>)}

\* _pack_archive_files that skips an entry without an archive file.
pack_archive_files_skipping_missing(archive_files, es) ==
    LET records(with_embargo) ==
            {rec \in archive_files : rec.calc_id \in entry_mainfiles(es, with_embargo)}
    IN [public |-> records(FALSE), restricted |-> records(TRUE)]

\* StagingUploadFiles._pack_archive_files: create_iterator(with_embargo)
\* yields for every entry with that flag the data of its archive file, or an
\* empty dict if the file does not exist; the public iterator is written to
\* archive-public, the restricted one to archive-restricted.
pack_archive_files(archive_files, es) ==
    LET archive_file_exists(m) == \E rec \in archive_files : rec.calc_id = m
        create_iterator(with_embargo) ==
            {IF archive_file_exists(m)
             THEN CHOOSE rec \in archive_files : rec.calc_id = m
             ELSE ArchiveRecord(m, "{}") : m \in entry_mainfiles(es, with_embargo)}
    IN [public |-> create_iterator(FALSE), restricted |-> create_iterator(TRUE)]

\* The staging files of a processed upload: some raw files, one entry for
\* some of the mainfiles among them, each with its embargo flag.
PackInit ==
    /\ ProcessingInit
    /\ staging_raw \in SUBSET RawPaths
    /\ entries \in [PackMainfiles -> [exists : BOOLEAN, with_embargo : BOOLEAN]]
    /\ \A m \in PackMainfiles :
          /\ entries[m].exists => m \in staging_raw
          /\ ~entries[m].exists => entries[m] = NoEntry
    /\ listdir_order \in {"ascending", "descending"}
    /\ raw_zip = [public |-> {}, restricted |-> {}]
    /\ is_frozen = FALSE
    /\ repacked = FALSE
    /\ last_read = NoRead
    /\ \E lacking \in SUBSET MayLackArchive :
          staging_archive = {ArchiveRecord(m, "archive") :
                                 m \in {e \in PackMainfiles : entries[e].exists} \ lacking}
    /\ archive_msg = [public |-> {}, restricted |-> {}]
    /\ OtherIdle

\* StagingUploadFiles.pack(entries): freezes the staging files and packs
\* the raw files.
Pack ==
    /\ ~is_frozen
    /\ is_frozen' = TRUE
    /\ archive_msg' = pack_archive_files(staging_archive, entries)
    /\ raw_zip' = pack_raw_files(staging_raw, entries, listdir_order)
    /\ UNCHANGED <<staging_raw, entries, listdir_order, repacked, last_read,
                   staging_archive>>
    /\ UNCHANGED othervars
    /\ UNCHANGED procvars

\* PublicUploadFiles.to_staging_upload_files: both zip files extracted
to_staging_upload_files == raw_zip.public \cup raw_zip.restricted

\* to_staging_upload_files that extracts archive-public only.
to_staging_archive_public_only == archive_msg.public

\* PublicUploadFiles.to_staging_upload_files(include_archive=True): every
\* record of archive-public and archive-restricted is written as the archive
\* file of its entry.
to_staging_archive == archive_msg.public \cup archive_msg.restricted

\* PublicUploadFiles.re_pack(entries) after the embargo flags of the entries
\* were changed: the packed files are extracted to staging files, packed
\* again, and moved over the original files.
RePack ==
    /\ is_frozen
    /\ \E flags \in [PackMainfiles -> BOOLEAN] :
          /\ \A m \in PackMainfiles : flags[m] => entries[m].exists
          /\ entries' = [m \in PackMainfiles |->
                            IF entries[m].exists
                            THEN [entries[m] EXCEPT !.with_embargo = flags[m]]
                            ELSE entries[m]]
          /\ archive_msg' = pack_archive_files(to_staging_archive, entries')
          /\ raw_zip' = pack_raw_files(to_staging_upload_files, entries', listdir_order)
    /\ repacked' = TRUE
    /\ last_read' = NoRead
    /\ UNCHANGED <<staging_raw, listdir_order, is_frozen, staging_archive>>
    /\ UNCHANGED othervars
    /\ UNCHANGED procvars

\* PublicUploadFiles.raw_file(file_path) for a caller that is authorized or
\* not: raw-public is tried first, then raw-restricted.
raw_file(file_path, authorized) ==
    IF file_path \in raw_zip.public
    THEN IF always_restricted(file_path) /\ ~authorized THEN "Restricted" ELSE "file"
    ELSE IF file_path \in raw_zip.restricted
         THEN IF ~authorized THEN "Restricted" ELSE "file"
         ELSE "KeyError"

RawFile ==
    /\ is_frozen
    /\ \E file_path \in RawPaths, authorized \in BOOLEAN :
          last_read' = [path |-> file_path, authorized |-> authorized,
                        result |-> raw_file(file_path, authorized)]
    /\ UNCHANGED <<staging_raw, entries, listdir_order, raw_zip, is_frozen, repacked>>
    /\ UNCHANGED archivevars
    /\ UNCHANGED othervars
    /\ UNCHANGED procvars

PackNext ==
    \/ Pack
    \/ RePack
    \/ RawFile

SpecPack == PackInit /\ [][PackNext]_vars

\* ------------------------------------------------------------------------
\* Properties of the packed raw files
\* ------------------------------------------------------------------------
\* A basename POTCAR... without the .stripped suffix
UnstrippedPotcar(path) ==
    /\ path.basename[1] = "POTCAR"
    /\ path.basename[Len(path.basename)] # ".stripped"

\* C7: no file in raw-public is the mainfile of an embargoed entry.
C7_NoEmbargoedMainfilePublic ==
    is_frozen => \A m \in entry_mainfiles(entries, TRUE) : m \notin raw_zip.public

\* An embargoed mainfile lies in the directory of an unembargoed entry whose
\* mainfile is public, and is itself in raw-restricted.
C7_Witness ==
    /\ is_frozen
    /\ \E m1 \in entry_mainfiles(entries, TRUE), m2 \in entry_mainfiles(entries, FALSE) :
          /\ m1.dir = m2.dir
          /\ m2 \in raw_zip.public
          /\ m1 \in raw_zip.restricted

\* files(e): the mainfile and the aux files kept for it (calc_files with the
\* cutoff, as stored with the entry when it is processed)
FilesOfEntry(m) == calc_files(staging_raw, listdir_order, m, TRUE).files

OwningEntries(f) ==
    IF f \in PackMainfiles /\ entries[f].exists
    THEN {f}
    ELSE {m \in PackMainfiles : entries[m].exists /\ m.dir = f.dir}

EmbargoedFilesRestricted ==
    \A f \in staging_raw :
        (OwningEntries(f) # {} /\ \A m \in OwningEntries(f) : entries[m].with_embargo)
            => f \in raw_zip.restricted

\* Scenario S4: a/m1.json embargoed, a/m2.json not, a/shared.aux
S4 ==
    /\ staging_raw = {RawPath("a", <<"m1", ".json">>), RawPath("a", <<"m2", ".json">>),
                      RawPath("a", <<"shared", ".aux">>)}
    /\ entry_mainfiles(entries, TRUE) = {RawPath("a", <<"m1", ".json">>)}
    /\ entry_mainfiles(entries, FALSE) = {RawPath("a", <<"m2", ".json">>)}

S4Packed ==
    /\ raw_zip.public = {RawPath("a", <<"m2", ".json">>), RawPath("a", <<"shared", ".aux">>)}
    /\ raw_zip.restricted = {RawPath("a", <<"m1", ".json">>)}

C10_AlwaysRestrictedNeverPublic ==
    /\ is_frozen => \A f \in raw_zip.public : ~UnstrippedPotcar(f)
    /\ (last_read.result = "file" /\ ~last_read.authorized)
           => ~UnstrippedPotcar(last_read.path)

\* After a re_pack of an upload with a POTCAR and its POTCAR.stripped, the
\* stripped file is public and was read by a caller that is not authorized,
\* while the POTCAR is not in raw-public.
C10_Witness ==
    /\ repacked
    /\ RawPath("a", <<"POTCAR">>) \in staging_raw
    /\ RawPath("a", <<"POTCAR">>) \notin raw_zip.public
    /\ RawPath("a", <<"POTCAR", ".stripped">>) \in raw_zip.public
    /\ last_read = [path |-> RawPath("a", <<"POTCAR", ".stripped">>),
                    authorized |-> FALSE, result |-> "file"]

\* ------------------------------------------------------------------------
\* Read operations of PublicUploadFiles
\* ------------------------------------------------------------------------
\* The size of a raw file (in units that tell the files apart)
FileSize(path) == Len(path.basename)

Directories == {"a", "b"}

\* The raw path of a directory, and of the root folder
DirectoryPath(dir) == RawPath(dir, <<>>)

RECURSIVE SumOfSizes(_)
SumOfSizes(files) ==
    IF files = {} THEN 0
    ELSE LET f == CHOOSE g \in files : TRUE
         IN FileSize(f) + SumOfSizes(files \ {f})

RawPathInfo(path, is_file, size, access) ==
    [path |-> path, is_file |-> is_file, size |-> size, access |-> access]

\* PublicUploadFiles._parse_content: self._directories[directory], built
\* from the names in raw-public and raw-restricted; a directory gets the
\* size of all files in it and the access 'Public'.
parse_content(zip, directory) ==
    IF directory = ""
    THEN {RawPathInfo(DirectoryPath(d), FALSE,
                      SumOfSizes({f \in zip.public \cup zip.restricted : f.dir = d}), "Public") :
              d \in {f.dir : f \in zip.public \cup zip.restricted}}
    ELSE {RawPathInfo(f, TRUE, FileSize(f),
                      IF f \in zip.restricted THEN "restricted" ELSE "public") :
              f \in {g \in zip.public \cup zip.restricted : g.dir = directory}}

\* The entry of self._directories for a path: the path of a file, of a
\* directory, or of the root folder
path_info(zip, path) ==
    LET directory_content == parse_content(zip, IF path.basename = <<>> THEN "" ELSE path.dir)
    IN {info \in directory_content : info.path = path}

\* PublicUploadFiles.raw_path_exists
raw_path_exists(zip, path, authorized) ==
    \/ path = DirectoryPath("")
    \/ \E info \in path_info(zip, path) : info.access = "public" \/ authorized

\* PublicUploadFiles.raw_path_is_file
raw_path_is_file(zip, path, authorized) ==
    /\ path # DirectoryPath("")
    /\ \E info \in path_info(zip, path) :
          (info.access = "public" \/ authorized) /\ info.is_file

\* raw_directory_list that yields what raw_path_exists admits.
raw_directory_list_checked(zip, directory, authorized) ==
    {info \in parse_content(zip, directory) : info.access = "public" \/ authorized}

\* PublicUploadFiles.raw_directory_list(path): the content of the directory
raw_directory_list(zip, directory, authorized) == parse_content(zip, directory)

\* PublicUploadFiles.raw_file_size
raw_file_size(zip, file_path, authorized) ==
    IF file_path \in zip.public
    THEN IF always_restricted(file_path) /\ ~authorized
         THEN [error |-> "Restricted", size |-> 0]
         ELSE [error |-> "", size |-> FileSize(file_path)]
    ELSE IF file_path \in zip.restricted
         THEN IF ~authorized
              THEN [error |-> "Restricted", size |-> 0]
              ELSE [error |-> "", size |-> FileSize(file_path)]
         ELSE [error |-> "KeyError", size |-> 0]

\* PublicUploadFiles.read_archive(calc_id): archive-public is tried first,
\* then archive-restricted
read_archive(msg, calc_id, authorized) ==
    IF \E rec \in msg.public : rec.calc_id = calc_id
    THEN [error |-> "", data |-> (CHOOSE rec \in msg.public : rec.calc_id = calc_id).data]
    ELSE IF \E rec \in msg.restricted : rec.calc_id = calc_id
         THEN IF ~authorized
              THEN [error |-> "Restricted", data |-> ""]
              ELSE [error |-> "",
                    data |-> (CHOOSE rec \in msg.restricted : rec.calc_id = calc_id).data]
         ELSE [error |-> "KeyError", data |-> ""]

\* What a reader that is not authorized obtains from the read operations; a
\* Restricted and a KeyError both count as "nothing obtained".
Obtained(result) == IF result.error = "" THEN result ELSE [result EXCEPT !.error = "error"]

UnauthorizedView(zip, msg) ==
    [exists |-> {q \in RawPaths \cup {DirectoryPath(d) : d \in Directories \cup {""}} :
                     raw_path_exists(zip, q, FALSE)},
     is_file |-> {q \in RawPaths : raw_path_is_file(zip, q, FALSE)},
     list |-> [d \in Directories \cup {""} |-> raw_directory_list(zip, d, FALSE)],
     size |-> [q \in RawPaths |-> Obtained(raw_file_size(zip, q, FALSE))],
     archive |-> [m \in PackMainfiles |-> Obtained(read_archive(msg, m, FALSE))]]

\* C11: for a packed upload, what a reader that is not authorized obtains
\* from raw_path_exists, raw_path_is_file, raw_directory_list, raw_file,
\* raw_file_size and read_archive is what the same operations give when the
\* restricted raw files and archive records are not there.
C11_RestrictedInvisible ==
    is_frozen =>
        /\ UnauthorizedView(raw_zip, archive_msg)
               = UnauthorizedView([raw_zip EXCEPT !.restricted = {}],
                                  [archive_msg EXCEPT !.restricted = {}])
        /\ \A q \in RawPaths : raw_file(q, FALSE) = "file" => q \in raw_zip.public

\* ------------------------------------------------------------------------
\* What pack writes where
\* ------------------------------------------------------------------------
\* The public set: the files in the directory of the mainfile of an entry
\* without embargo, without the always-restricted files and without the
\* mainfiles of the entries with embargo
PublicSet ==
    {f \in staging_raw :
        /\ \E m \in entry_mainfiles(entries, FALSE) : f.dir = m.dir
        /\ ~UnstrippedPotcar(f)
        /\ f \notin entry_mainfiles(entries, TRUE)}

RecordsOf(m) == {rec \in archive_msg.public \cup archive_msg.restricted : rec.calc_id = m}

MaxPubRequests == 2     \* publish and metadata requests handled

\* The embargo lengths of the uploads, and the embargo_length parameter of a
\* request: not given, or a number of months (37 is out of range)
EmbargoLengths == {0, 12}

NoEmbargoArg == [given |-> FALSE, value |-> 0]

EmbargoArgs == {NoEmbargoArg} \cup {[given |-> TRUE, value |-> v] : v \in {0, 12, 37}}

\* The raw files of the uploads: every file is in the directory of the entry
PublishRawFileSets ==
    { {RawPath("a", <<"m1", ".json">>)},
      {RawPath("a", <<"m1", ".json">>), RawPath("a", <<"shared", ".aux">>)} }

\* The raw path of a mainfile
raw_path_of(mainfile) ==
    CASE mainfile = "a/m1.json" -> RawPath("a", <<"m1", ".json">>)

\* Binding of the arguments of a call to the parameters of a method (self
\* left out): the positional arguments fill the first parameters, every
\* keyword names one of the remaining parameters, and every parameter
\* without a default value is bound; otherwise the call raises a TypeError.
binds(signature, n_positional, keywords) ==
    /\ n_positional <= Len(signature.params)
    /\ \A k \in keywords :
          \E i \in (n_positional + 1)..Len(signature.params) : signature.params[i] = k
    /\ \A i \in 1..signature.required :
          i <= n_positional \/ signature.params[i] \in keywords

\* def pack(self, entries, create=True, include_raw=True, include_archive=True)
pack_signature ==
    [params |-> <<"entries", "create", "include_raw", "include_archive">>, required |-> 1]

\* def re_pack(self, entries, include_raw=True, include_archive=True)
re_pack_signature ==
    [params |-> <<"entries", "include_raw", "include_archive">>, required |-> 1]

\* Upload.entries_metadata: one EntryMetadata per entry of the upload, with
\* the upload-level embargo
entries_metadata(length) ==
    [m \in PackMainfiles |->
        IF \E id \in Entries : raw_path_of(calcs[id].mainfile) = m
        THEN [exists |-> TRUE, with_embargo |-> length > 0]
        ELSE NoEntry]

\* The archive files of the entries that were processed with success
entry_archives ==
    {ArchiveRecord(raw_path_of(calcs[id].mainfile), "archive") :
         id \in {e \in Entries : calcs[e].process_status = SUCCESS}}

Request(op, is_admin, embargo, outcome) ==
    [op |-> op, is_admin |-> is_admin, embargo |-> embargo, fields |-> {},
     outcome |-> outcome, done |-> FALSE, failed |-> FALSE, flipped |-> FALSE, repacked |-> FALSE]

\* An upload that is in staging (not processed, being processed, or
\* processed) or that is published, with its packed files.
UploadAtRest ==
    /\ joined = FALSE /\ raw = {} /\ nruns = 0 /\ checked = 0 /\ cleanups = 0 /\ kills = 0
    /\ procs = [p \in ProcIds |-> NoProc]
    /\ \E statuses \in [Mainfiles -> {"none", SUCCESS, FAILURE}] :
          calcs = [id \in EntryIds |->
                      IF id[1] # UploadId \/ statuses[id[2]] = "none" THEN NoCalc
                      ELSE [exists |-> TRUE, upload_id |-> UploadId, mainfile |-> id[2],
                            process_status |-> statuses[id[2]], nomad_version |-> TRUE]]
    /\ staging_raw \in PublishRawFileSets
    /\ listdir_order = "ascending"
    /\ staging_archive = entry_archives
    /\ embargo_length \in EmbargoLengths
    /\ publish_time \in BOOLEAN
    /\ IF publish_time
       THEN /\ process_status = SUCCESS
            /\ Entries # {}
            /\ entries = entries_metadata(embargo_length)
            /\ is_frozen = TRUE
            /\ raw_zip = pack_raw_files(staging_raw, entries, listdir_order)
            /\ archive_msg = pack_archive_files(staging_archive, entries)
       ELSE /\ process_status \in {RUNNING, SUCCESS, FAILURE}
            /\ entries = [m \in PackMainfiles |-> NoEntry]
            /\ is_frozen = FALSE
            /\ raw_zip = [public |-> {}, restricted |-> {}]
            /\ archive_msg = [public |-> {}, restricted |-> {}]
    /\ repacked = FALSE
    /\ last_read = NoRead
    /\ upload_process = NoProcess
    /\ repacks = 0
    /\ upload_name = "name"
    /\ requests = <<>>

PublishInit == UploadAtRest /\ BundleIdle /\ RunIdle /\ StepIdle /\ TaskIdle

\* post_upload_action_publish that does not look at the entries.
publish_allowed_without_entries(is_admin, embargo) ==
    /\ ~publish_time
    /\ ~process_running
    /\ process_status # FAILURE
    /\ embargo.given => embargo.value \in 0..36

\* post_upload_action_publish (to_central_nomad not set): the checks that
\* the handler makes before it calls upload.publish_upload
publish_allowed(is_admin, embargo) ==
    /\ ~(publish_time /\ ~is_admin)
    /\ ~process_running
    /\ process_status # FAILURE
    /\ processed_calcs # 0
    /\ embargo.given => embargo.value \in 0..36
    /\ ~publish_time

PostUploadActionPublish ==
    /\ Len(requests) < MaxPubRequests
    /\ \E is_admin \in BOOLEAN, embargo \in EmbargoArgs :
          LET accepted == publish_allowed(is_admin, embargo) /\ process_start.accepted IN
          /\ requests' = Append(requests,
                 Request("publish", is_admin, embargo,
                         IF accepted THEN "accepted" ELSE "rejected"))
          /\ IF accepted
             THEN /\ process_status' = process_start.process_status
                  /\ upload_process' = [name |-> "publish_upload", embargo |-> embargo,
                                     fields |-> {}]
             ELSE UNCHANGED <<process_status, upload_process>>
    /\ UNCHANGED <<joined, raw, calcs, procs, nruns, checked, cleanups, kills>>
    /\ UNCHANGED <<staging_raw, entries, listdir_order, raw_zip, is_frozen, repacked,
                   last_read, archivevars>>
    /\ UNCHANGED <<publish_time, embargo_length, repacks, upload_name, bundlevars, runvars, stepvars, taskvars>>

\* The outcome of the process of the last request
finish(failed, flipped, repacked_files) ==
    [requests EXCEPT ![Len(requests)] =
        [@ EXCEPT !.done = TRUE, !.failed = failed, !.flipped = flipped,
                  !.repacked = repacked_files]]

\* Upload.publish_upload, run by a worker.  A failure ends the process in
\* FAILURE; whether the embargo_length that was set on the document is
\* stored with the failure is up to the process framework.
PublishUpload ==
    /\ upload_process.name = "publish_upload"
    /\ upload_process' = NoProcess
    /\ LET new_length == IF upload_process.embargo.given
                         THEN upload_process.embargo.value ELSE embargo_length
       IN IF processed_calcs = 0
          THEN /\ process_status' = FAILURE
               /\ requests' = finish(TRUE, FALSE, FALSE)
               /\ UNCHANGED <<embargo_length, publish_time, entries, raw_zip, archive_msg,
                              is_frozen>>
          ELSE IF ~binds(pack_signature, 1, {"with_embargo"})
               THEN /\ process_status' = FAILURE
                    /\ embargo_length' \in {embargo_length, new_length}
                    /\ requests' = finish(TRUE, FALSE, FALSE)
                    /\ UNCHANGED <<publish_time, entries, raw_zip, archive_msg, is_frozen>>
               ELSE /\ process_status' = SUCCESS
                    /\ embargo_length' = new_length
                    /\ entries' = entries_metadata(new_length)
                    /\ raw_zip' = pack_raw_files(staging_raw, entries', listdir_order)
                    /\ archive_msg' = pack_archive_files(staging_archive, entries')
                    /\ is_frozen' = TRUE
                    /\ publish_time' = TRUE
                    /\ requests' = finish(FALSE, FALSE, FALSE)
    /\ UNCHANGED <<joined, raw, calcs, procs, nruns, checked, cleanups, kills>>
    /\ UNCHANGED <<staging_raw, listdir_order, repacked, last_read, staging_archive, repacks,
                   upload_name, bundlevars, runvars, stepvars, taskvars>>

\* The fields of UploadMetadata other than embargo_length
MetadataFields == {"upload_name", "uploader", "upload_time"}

\* _check_upload_metadata with the checks of the fields that only an admin
\* may set left out.
check_upload_metadata_any_field(fields, is_admin, published, current_embargo_length, embargo) ==
    embargo.given =>
          /\ embargo.value \in 0..36
          /\ (published /\ ~is_admin) =>
                /\ ~(current_embargo_length = 0 /\ embargo.value > 0)
                /\ ~(embargo.value >= current_embargo_length)

\* _check_upload_metadata (the uploader, if given, is a valid user id): a
\* user that is no admin sets neither uploader nor upload_time, and no
\* upload_name on a published upload; an embargo_length is in range, and a
\* user that is no admin can only shorten or lift the embargo of a published
\* upload
check_upload_metadata(fields, is_admin, published, current_embargo_length, embargo) ==
    /\ ~is_admin => /\ "uploader" \notin fields
                    /\ "upload_time" \notin fields
                    /\ published => "upload_name" \notin fields
    /\ embargo.given =>
          /\ embargo.value \in 0..36
          /\ (published /\ ~is_admin) =>
                /\ ~(current_embargo_length = 0 /\ embargo.value > 0)
                /\ ~(embargo.value >= current_embargo_length)

\* put_upload_metadata
PutUploadMetadata ==
    /\ Len(requests) < MaxPubRequests
    /\ \E is_admin \in BOOLEAN, embargo \in EmbargoArgs, fields \in SUBSET MetadataFields :
          LET accepted ==
                  /\ ~process_running
                  /\ check_upload_metadata(fields, is_admin, publish_time, embargo_length,
                                           embargo)
                  /\ process_start.accepted
          IN
          /\ requests' = Append(requests,
                 [Request("metadata", is_admin, embargo,
                          IF accepted THEN "accepted" ELSE "rejected")
                  EXCEPT !.fields = fields])
          /\ IF accepted
             THEN /\ process_status' = process_start.process_status
                  /\ upload_process' = [name |-> "set_upload_metadata", embargo |-> embargo,
                                        fields |-> fields]
             ELSE UNCHANGED <<process_status, upload_process>>
    /\ UNCHANGED <<joined, raw, calcs, procs, nruns, checked, cleanups, kills>>
    /\ UNCHANGED <<staging_raw, entries, listdir_order, raw_zip, is_frozen, repacked,
                   last_read, archivevars>>
    /\ UNCHANGED <<publish_time, embargo_length, repacks, upload_name, bundlevars, runvars, stepvars, taskvars>>

\* Upload.set_upload_metadata, run by a worker: set_upload_metadata_local
\* stores the upload_name and the embargo_length that are given and then,
\* if the upload is published and the embargo flag flips, calls
\* PublicUploadFiles.re_pack.  (The main author and the creation time of the
\* document are not part of the state here.)
SetUploadMetadata ==
    /\ upload_process.name = "set_upload_metadata"
    /\ upload_process' = NoProcess
    /\ upload_name' = IF "upload_name" \in upload_process.fields THEN "new name"
                      ELSE upload_name
    /\ LET new_length == IF upload_process.embargo.given
                         THEN upload_process.embargo.value ELSE embargo_length
           need_to_repack == /\ upload_process.embargo.given
                             /\ publish_time
                             /\ (embargo_length > 0) # (new_length > 0)
       IN /\ embargo_length' = new_length
          /\ IF ~need_to_repack
             THEN /\ process_status' = SUCCESS
                  /\ requests' = finish(FALSE, FALSE, FALSE)
                  /\ UNCHANGED <<entries, raw_zip, archive_msg, repacks, repacked>>
             ELSE IF ~binds(re_pack_signature, 0, {"with_embargo"})
                  THEN /\ process_status' = FAILURE
                       /\ requests' = finish(TRUE, TRUE, FALSE)
                       /\ UNCHANGED <<entries, raw_zip, archive_msg, repacks, repacked>>
                  ELSE /\ process_status' = SUCCESS
                       /\ entries' = entries_metadata(new_length)
                       /\ raw_zip' = pack_raw_files(to_staging_upload_files, entries',
                                                    listdir_order)
                       /\ archive_msg' = pack_archive_files(to_staging_archive, entries')
                       /\ repacks' = repacks + 1
                       /\ repacked' = TRUE
                       /\ requests' = finish(FALSE, TRUE, TRUE)
    /\ UNCHANGED <<joined, raw, calcs, procs, nruns, checked, cleanups, kills>>
    /\ UNCHANGED <<staging_raw, listdir_order, is_frozen, last_read, staging_archive,
                   publish_time, bundlevars, runvars, stepvars, taskvars>>

PublishNext ==
    \/ PostUploadActionPublish
    \/ PublishUpload
    \/ PutUploadMetadata
    \/ SetUploadMetadata

SpecPublish == PublishInit /\ [][PublishNext]_vars

\* ------------------------------------------------------------------------
\* Publish
\* ------------------------------------------------------------------------
\* A step that handles a publish request
PublishRequested ==
    /\ Len(requests') = Len(requests) + 1
    /\ requests'[Len(requests')].op = "publish"

\* A rejected request changes neither the publish_time, nor the files, nor
\* the entries
RejectedLeavesUnchanged ==
    requests'[Len(requests')].outcome = "rejected" =>
        UNCHANGED <<publish_time, staging_raw, staging_archive, raw_zip, archive_msg,
                    is_frozen, calcs, entries>>

\* C18 as stated: publish is accepted only if the upload has at least one
\* entry in SUCCESS, is not failed, is not processing and is not published;
\* a rejected publish leaves publish_time, files and entries unchanged.
C18_AcceptedOnlyWithSuccessEntry ==
    [][PublishRequested =>
          /\ requests'[Len(requests')].outcome = "accepted" =>
                /\ \E id \in Entries : calcs[id].process_status = SUCCESS
                /\ process_status # FAILURE
                /\ ~process_running
                /\ ~publish_time
          /\ RejectedLeavesUnchanged]_vars

\* C18 amended: publish is accepted only if the upload has at least one
\* processed entry (in SUCCESS or in FAILURE), is not failed, is not
\* processing and is not published; a rejected publish leaves publish_time,
\* files and entries unchanged.
C18_AcceptedOnlyWithProcessedEntry ==
    [][PublishRequested =>
          /\ requests'[Len(requests')].outcome = "accepted" =>
                /\ \E id \in Entries : calcs[id].process_status \in {SUCCESS, FAILURE}
                /\ process_status # FAILURE
                /\ ~process_running
                /\ ~publish_time
          /\ RejectedLeavesUnchanged]_vars

\* One publish request was rejected and another one accepted
C18_Witness ==
    /\ \E i \in 1..Len(requests) :
          requests[i].op = "publish" /\ requests[i].outcome = "rejected"
    /\ \E i \in 1..Len(requests) :
          requests[i].op = "publish" /\ requests[i].outcome = "accepted"

\* The last request, once its process has ended
LastDone(op, value) ==
    /\ requests # <<>>
    /\ LET r == requests[Len(requests)]
       IN r.op = op /\ r.outcome = "accepted" /\ r.done
          /\ r.embargo.given /\ r.embargo.value = value

\* C19: publishing an upload with embargo 12 leaves raw-public empty and all
\* raw files in raw-restricted; a lift of the embargo (embargo_length set to
\* 0) of an upload published with embargo leaves all raw files in raw-public
\* and raw-restricted empty.
C19_EmbargoMovesAllRawFiles ==
    /\ LastDone("publish", 12) =>
          /\ publish_time
          /\ raw_zip.public = {}
          /\ raw_zip.restricted = staging_raw
    /\ (LastDone("metadata", 0) /\ requests[Len(requests)].flipped) =>
          /\ raw_zip.public = staging_raw
          /\ raw_zip.restricted = {}

\* The i-th request is an accepted embargo change that flipped the flag of
\* the published upload and has been carried out
FlippingChange(i) ==
    /\ i \in 1..Len(requests)
    /\ requests[i].op = "metadata"
    /\ requests[i].outcome = "accepted"
    /\ requests[i].done
    /\ requests[i].flipped

\* C20: an embargo change on a published upload that flips the embargo flag
\* repacks the public files exactly once; the identical change, made a
\* second time, is accepted, does not repack and leaves the files and the
\* metadata unchanged.
C20_RepackOnceThenNoOp ==
    /\ \A i \in 1..Len(requests) :
          FlippingChange(i) => requests[i].repacked /\ ~requests[i].failed
    /\ repacks = Cardinality({i \in 1..Len(requests) : FlippingChange(i)})
    /\ (/\ FlippingChange(1)
        /\ Len(requests) = 2
        /\ requests[2].op = "metadata"
        /\ requests[2].is_admin = requests[1].is_admin
        /\ requests[2].embargo = requests[1].embargo
        /\ requests[2].fields = requests[1].fields)
       => /\ requests[2].outcome = "accepted"
          /\ requests[2].done => ~requests[2].repacked /\ ~requests[2].failed

\* C20, second half alone: the identical change, made a second time after a
\* change that flipped the flag, is accepted.
C20_SecondChangeAccepted ==
    (/\ FlippingChange(1)
     /\ Len(requests) = 2
     /\ requests[2].op = "metadata"
     /\ requests[2].is_admin = requests[1].is_admin
     /\ requests[2].embargo = requests[1].embargo
     /\ requests[2].fields = requests[1].fields)
    => requests[2].outcome = "accepted"

\* C20, first half alone: a change that flips the flag repacks.
C20_FlipRepacks ==
    \A i \in 1..Len(requests) :
        FlippingChange(i) => requests[i].repacked /\ ~requests[i].failed

\* ------------------------------------------------------------------------
\* Upload bundles: Upload.export_bundle, Upload.import_bundle
\* ------------------------------------------------------------------------
\* current_time_plus_tolerance = current_time + timedelta(minutes=2)
Tolerance == 2

\* upload_create_time of a bundle_info.json, in minutes after the
\* current_time of the import
TimestampOffsets == {0, 2, 3}

\* def files_to_bundle(self, bundle_info, include_raw_files,
\*                     include_protected_raw_files, include_archive_files)
files_to_bundle_signature ==
    [params |-> <<"bundle_info", "include_raw_files", "include_protected_raw_files",
                  "include_archive_files">>,
     required |-> 4]

\* def import_upload_files(self, include_raw_files, include_archive_files,
\*                         move_files)
import_upload_files_signature ==
    [params |-> <<"include_raw_files", "include_archive_files", "move_files">>,
     required |-> 3]

\* entry.to_mongo().to_dict() for the entries of the upload
bundle_entries ==
    {[id |-> id, upload_id |-> calcs[id].upload_id, mainfile |-> calcs[id].mainfile,
      process_status |-> calcs[id].process_status] : id \in Entries}

\* The files that files_to_bundle names: the raw and archive directories of
\* an upload in staging, the raw-* and archive-* files of a published one
\* (include_raw_files and include_archive_files set)
files_to_bundle ==
    IF publish_time
    THEN [exists |-> TRUE, published |-> TRUE, raw |-> raw_zip, archive |-> archive_msg]
    ELSE [exists |-> TRUE, published |-> FALSE, raw |-> staging_raw,
          archive |-> staging_archive]

\* The bundle of the upload: bundle_info.json and the files
bundle_of_upload(upload_create_time, datasets) ==
    [exists |-> TRUE,
     upload_id |-> UploadId,
     upload |-> [publish_time |-> publish_time, embargo_length |-> embargo_length,
                 upload_create_time |-> upload_create_time],
     entries |-> bundle_entries,
     datasets |-> datasets,
     files |-> files_to_bundle]

\* A bundle whose bundle_info.json was changed after the export, or was
\* not written by export_bundle: in its entries, or in the embargo_length of
\* its upload
BundleFaults == {"none", "entry_id", "process_status", "embargo_length"}

with_fault(b, fault) ==
    [b EXCEPT !.entries =
        {CASE fault = "entry_id" ->
                  [e EXCEPT !.id = generate_entry_id(OtherUploadId, e.mainfile)]
           [] fault = "process_status" -> [e EXCEPT !.process_status = RUNNING]
           [] OTHER -> e : e \in b.entries},
              !.upload.embargo_length = IF fault = "embargo_length" THEN 37 ELSE @]

\* The upload of a deployment, and at bundle_path either nothing or a bundle
\* of this upload, written with all files and as it is or with a fault
BundleInit ==
    /\ UploadAtRest
    /\ RunIdle
    /\ StepIdle /\ TaskIdle
    /\ target = FreshTarget
    /\ \/ upload_bundle = NoBundle
       \/ /\ ~process_running
          /\ \E t \in TimestampOffsets, ds \in SUBSET {"dataset"}, fault \in BundleFaults :
                upload_bundle = with_fault(bundle_of_upload(t, ds), fault)

\* Upload.export_bundle to export_path (zipped, all files, with datasets).
\* The bundle is the files that files_to_bundle returns.
ExportBundle ==
    /\ upload_bundle = NoBundle
    /\ target.result = "none"
    /\ IF process_running
       THEN /\ target' = [target EXCEPT !.result = "export failed",
                                        !.error = "Upload is being processed."]
            /\ UNCHANGED upload_bundle
       ELSE IF ~binds(files_to_bundle_signature, 3, {})
            THEN /\ target' = [target EXCEPT !.result = "export failed",
                                             !.error = "TypeError"]
                 /\ UNCHANGED upload_bundle
            ELSE /\ \E ds \in SUBSET {"dataset"} :
                       upload_bundle' = bundle_of_upload(0, ds)
                 /\ UNCHANGED target
    /\ UNCHANGED <<procvars, staging_raw, entries, listdir_order, raw_zip, is_frozen,
                   repacked, last_read, archivevars, pubvars, runvars, stepvars, taskvars>>

\* Upload.create_skeleton_from_bundle: an upload with the upload_id of the
\* bundle, saved
CreateSkeletonFromBundle ==
    /\ upload_bundle.exists
    /\ target.result = "none"
    /\ ~target.upload.exists
    /\ target' = [target EXCEPT
           !.upload = [exists |-> TRUE, upload_id |-> upload_bundle.upload_id,
                       publish_time |-> FALSE, embargo_length |-> 0,
                       upload_create_time |-> 0],
           !.result = "skeleton"]
    /\ UNCHANGED <<procvars, staging_raw, entries, listdir_order, raw_zip, is_frozen,
                   repacked, last_read, archivevars, pubvars, upload_bundle, runvars, stepvars, taskvars>>

\* The first assertion of import_bundle that fails, "none" if all hold.
\* stored is the Upload document after self.modify(**update).  The bundles
\* have all required keys, the required version, the files and datasets that
\* the settings ask for, and valid user ids.
import_error(stored) ==
    IF upload_bundle.upload.publish_time /\ upload_bundle.entries = {}
    THEN "Upload published but no entries in bundle_info.json"
    ELSE IF ~(stored.upload_create_time < Tolerance)
    THEN "Timestamp is in the future"
    ELSE IF \E e \in upload_bundle.entries : e.process_status \notin STATUSES_NOT_PROCESSING
    THEN "Invalid entry process_status"
    ELSE IF \E e \in upload_bundle.entries : e.upload_id # stored.upload_id
    THEN "Mismatching upload_id in entry definition"
    ELSE IF \E e \in upload_bundle.entries :
                e.id # generate_entry_id(stored.upload_id, e.mainfile)
    THEN "Provided entry id does not match generated value"
    ELSE IF ~binds(import_upload_files_signature, 4, {})
    THEN "TypeError"
    ELSE "none"

\* The errors raised before self.modify(**update)
ErrorsBeforeModify == {"Upload published but no entries in bundle_info.json"}

\* The errors raised before the datasets of the bundle are saved
ErrorsBeforeDatasets == ErrorsBeforeModify \cup {"Timestamp is in the future"}

\* Upload.import_bundle on the skeleton, run by a worker (embargo_length not
\* given, include_datasets set, no trigger_processing).
ImportBundleOnSkeleton ==
    /\ target.result = "skeleton"
    /\ \E delete_upload_on_fail \in BOOLEAN, keep_original_timestamps \in BOOLEAN :
          LET \* self.modify(**update): stored at once
              modified ==
                  [target.upload EXCEPT
                      !.embargo_length = upload_bundle.upload.embargo_length,
                      !.publish_time =
                          IF keep_original_timestamps
                          THEN upload_bundle.upload.publish_time ELSE @,
                      !.upload_create_time =
                          IF keep_original_timestamps
                          THEN upload_bundle.upload.upload_create_time ELSE @]
              error == import_error(modified)
              stored == IF error \in ErrorsBeforeModify THEN target.upload ELSE modified
              new_datasets == IF error \in ErrorsBeforeDatasets THEN {}
                              ELSE upload_bundle.datasets \ target.datasets
              settings == [target EXCEPT
                              !.delete_upload_on_fail = delete_upload_on_fail,
                              !.keep_original_timestamps = keep_original_timestamps,
                              !.error = error]
          IN IF error = "none"
             THEN \* files imported, upload and entries saved, entries indexed
                  target' = [settings EXCEPT
                      !.upload = [modified EXCEPT
                                     !.publish_time = upload_bundle.upload.publish_time],
                      !.calcs = upload_bundle.entries,
                      !.files = upload_bundle.files,
                      !.index = {e.id : e \in upload_bundle.entries},
                      !.datasets = @ \cup new_datasets,
                      !.result = SUCCESS]
             ELSE IF delete_upload_on_fail /\ target.files.exists
             THEN \* delete_upload_local and the new datasets deleted
                  target' = [settings EXCEPT
                      !.upload = [exists |-> FALSE], !.calcs = {},
                      !.files = [exists |-> FALSE], !.index = {},
                      !.result = "DELETED"]
             ELSE IF delete_upload_on_fail
             THEN \* delete_upload_local: self.upload_files raises KeyError
                  target' = [settings EXCEPT
                      !.upload = stored,
                      !.datasets = @ \cup new_datasets,
                      !.result = FAILURE]
             ELSE \* search.delete_upload, and the error is raised again
                  target' = [settings EXCEPT
                      !.upload = stored,
                      !.datasets = @ \cup new_datasets,
                      !.index = {},
                      !.result = FAILURE]
    /\ UNCHANGED <<procvars, staging_raw, entries, listdir_order, raw_zip, is_frozen,
                   repacked, last_read, archivevars, pubvars, upload_bundle, runvars, stepvars, taskvars>>

BundleNext ==
    \/ ExportBundle
    \/ CreateSkeletonFromBundle
    \/ ImportBundleOnSkeleton

SpecBundle == BundleInit /\ [][BundleNext]_vars

\* import_bundle has ended
ImportEnded == target.result \in {SUCCESS, FAILURE, "DELETED"}

\* The bundle at bundle_path is the bundle of the upload, as exported
ExportedBundle ==
    /\ upload_bundle.exists
    /\ upload_bundle = bundle_of_upload(0, upload_bundle.datasets)

\* C15: export_bundle of an upload (that is not being processed) yields a
\* bundle, and import_bundle of the bundle of the upload on a fresh
\* deployment yields an upload with the same upload_id, the same entries
\* with the same entry ids, and the same raw and archive files.
C15_ExportThenImport ==
    /\ target.result = "export failed" => process_running
    /\ (ExportedBundle /\ ImportEnded) =>
          /\ target.result = SUCCESS
          /\ target.upload.exists
          /\ target.upload.upload_id = UploadId
          /\ {e.id : e \in target.calcs} = Entries
          /\ target.files = files_to_bundle

\* C16: if import_bundle fails and delete_upload_on_fail is set, the upload,
\* its entries, its files, its search documents and the datasets made by
\* the import are gone; if it is not set, the upload is retained and no
\* entry of it is in the search index.
C16_FailedImportCleansUp ==
    (ImportEnded /\ target.error # "none") =>
        IF target.delete_upload_on_fail
        THEN /\ ~target.upload.exists
             /\ target.calcs = {}
             /\ ~target.files.exists
             /\ target.index = {}
             /\ target.datasets = {}
        ELSE /\ target.upload.exists
             /\ target.index = {}

\* C16, the half without delete_upload_on_fail alone
C16_RetainedAndNotIndexed ==
    (ImportEnded /\ target.error # "none" /\ ~target.delete_upload_on_fail) =>
        /\ target.upload.exists
        /\ target.index = {}

\* The errors of the sanity checks on the content of the bundle
SanityErrors ==
    {"Upload published but no entries in bundle_info.json",
     "Timestamp is in the future",
     "Invalid entry process_status",
     "Mismatching upload_id in entry definition",
     "Provided entry id does not match generated value"}

\* The skeleton as create_skeleton_from_bundle stored it
SkeletonUnchanged ==
    /\ target.upload.exists
    /\ target.upload.embargo_length = 0
    /\ ~target.upload.publish_time
    /\ target.upload.upload_create_time = 0

\* C17, persistence: when a sanity check of import_bundle fails, nothing of
\* the bundle has been stored: the upload is as the skeleton was, no entry
\* and no dataset is stored, nothing is indexed.
C17_NothingStoredOnRejection ==
    (ImportEnded /\ target.error \in SanityErrors /\ ~target.delete_upload_on_fail) =>
        /\ SkeletonUnchanged
        /\ target.calcs = {}
        /\ target.datasets = {}
        /\ target.index = {}

\* C17, the timestamp bound: a bundle whose timestamps are at most now + 2
\* minutes is not rejected for its timestamps.
C17_TimestampAtToleranceAccepted ==
    (ImportEnded /\ upload_bundle.upload.upload_create_time <= Tolerance) =>
        target.error # "Timestamp is in the future"

\* C17: import_bundle stores and indexes only after every sanity check has
\* passed; with the original timestamps kept, a bundle is rejected if a
\* timestamp is later than now + 2 minutes and not rejected for a timestamp
\* that is at most now + 2 minutes; it is rejected if an entry id is not
\* the generated one or if an entry is being processed.
C17_SanityChecksBeforeStoring ==
    /\ C17_NothingStoredOnRejection
    /\ C17_TimestampAtToleranceAccepted
    /\ ImportEnded =>
          /\ (target.keep_original_timestamps
              /\ upload_bundle.upload.upload_create_time > Tolerance)
                => target.error \in SanityErrors
          /\ (\E e \in upload_bundle.entries :
                 e.id # generate_entry_id(upload_bundle.upload_id, e.mainfile))
                => target.error \in SanityErrors
          /\ (\E e \in upload_bundle.entries :
                 e.process_status \notin STATUSES_NOT_PROCESSING)
                => target.error \in SanityErrors

\* C17, the rejections alone
C17_FaultyBundleRejected ==
    ImportEnded =>
          /\ (target.keep_original_timestamps
              /\ upload_bundle.upload.upload_create_time > Tolerance)
                => target.error \in SanityErrors
          /\ (\E e \in upload_bundle.entries :
                 e.id # generate_entry_id(upload_bundle.upload_id, e.mainfile))
                => target.error \in SanityErrors
          /\ (\E e \in upload_bundle.entries :
                 e.process_status \notin STATUSES_NOT_PROCESSING)
                => target.error \in SanityErrors

\* ------------------------------------------------------------------------
\* Upload metadata requests
\* ------------------------------------------------------------------------
\* A step that handles a metadata request
MetadataRequested ==
    /\ Len(requests') = Len(requests) + 1
    /\ requests'[Len(requests')].op = "metadata"

\* C21: a metadata request of a user that is no admin is accepted only if
\* it sets neither the main author (uploader) nor a timestamp (upload_time),
\* sets the upload name only while the upload is not published, and on a
\* published upload only shortens the embargo; a rejected request changes
\* nothing.
C21_NonAdminMetadata ==
    [][MetadataRequested =>
          LET r == requests'[Len(requests')] IN
          /\ (r.outcome = "accepted" /\ ~r.is_admin) =>
                /\ "uploader" \notin r.fields
                /\ "upload_time" \notin r.fields
                /\ "upload_name" \in r.fields => ~publish_time
                /\ (publish_time /\ r.embargo.given) => r.embargo.value < embargo_length
          /\ r.outcome = "rejected" =>
                UNCHANGED <<procvars, staging_raw, entries, listdir_order, raw_zip,
                            is_frozen, repacked, last_read, archivevars, publish_time,
                            embargo_length, upload_process, repacks, upload_name,
                            bundlevars, runvars, stepvars, taskvars>>]_vars

\* A user that is no admin had a request rejected for a field that only an
\* admin may set, and shortened the embargo of the published upload
C21_Witness ==
    /\ publish_time
    /\ \E i \in 1..Len(requests) :
          /\ requests[i].op = "metadata" /\ ~requests[i].is_admin
          /\ requests[i].outcome = "rejected"
          /\ requests[i].fields # {}
          /\ ~requests[i].embargo.given
    /\ \E i \in 1..Len(requests) :
          /\ requests[i].op = "metadata" /\ ~requests[i].is_admin
          /\ requests[i].outcome = "accepted"
          /\ requests[i].embargo.given

\* ------------------------------------------------------------------------
\* API handlers put_upload_raw_path and delete_upload_raw_path
\* ------------------------------------------------------------------------
\* A path of a request, as the sequence path.split('/') of its elements
PathArgs ==
    { <<"">>,               \* ''
      <<"a">>,              \* 'a'
      <<"a", "">>,          \* 'a/'
      <<"a", "m1.json">>,   \* 'a/m1.json'
      <<"", "a">>,          \* '/a'
      <<"a", "", "b">>,     \* 'a//b'
      <<"..", "a">>,        \* '../a'
      <<"a", ".">>,         \* 'a/.'
      <<"a\nb">> }          \* a name with a line break

\* '\n' in element
has_newline(element) == element = "a\nb"

\* files.is_safe_relative_path: the empty path is safe; a path that starts
\* with '/', contains '//' or a line break, or has an element '.' or '..'
\* is not
is_safe_relative_path(path) ==
    \/ path = <<"">>
    \/ /\ ~(Len(path) > 1 /\ path[1] = "")
       /\ ~(\E i \in 2..(Len(path) - 1) : path[i] = "")
       /\ ~(\E i \in 1..Len(path) : has_newline(path[i]))
       /\ \A i \in 1..Len(path) : path[i] \notin {".", ".."}

\* The raw files at a path: the file itself, or the files in the directory
files_at(path, files) ==
    IF path = <<"">> THEN files
    ELSE {f \in files :
             \/ f.dir = path[1] /\ (Len(path) = 1 \/ path[2] = "")
             \/ /\ Len(path) = 2
                /\ path = <<"a", "m1.json">>
                /\ f = RawPath("a", <<"m1", ".json">>)}

\* StagingUploadFiles.raw_path_exists
staging_raw_path_exists(path) ==
    /\ is_safe_relative_path(path)
    /\ path = <<"">> \/ files_at(path, staging_raw) # {}

\* The checks of both handlers, without the refusal of published uploads.
raw_path_allowed_when_published(path) ==
    /\ ~process_running
    /\ is_safe_relative_path(path)

\* The checks that both handlers make before anything else:
\* _get_upload_with_write_access(include_published=False) for a user with
\* write access, _check_upload_not_processing, is_safe_relative_path
raw_path_allowed(path) ==
    /\ ~publish_time
    /\ ~process_running
    /\ is_safe_relative_path(path)

RawPathRequest(op, path, outcome) == [op |-> op, path |-> path, outcome |-> outcome]

\* The end of an accepted request: upload.reset(), the file operation is
\* scheduled and upload.process_upload() is called.  Upload has no method
\* schedule_operation_add_files or schedule_operation_delete_path in
\* processing/data.py: either the call raises AttributeError and the request
\* ends with nothing changed, or the process is started with the operation.
start_file_operation(op, path) ==
    \/ /\ requests' = Append(requests, RawPathRequest(op, path, "error"))
       /\ UNCHANGED <<process_status, upload_process>>
    \/ /\ process_start.accepted
       /\ requests' = Append(requests, RawPathRequest(op, path, "accepted"))
       /\ process_status' = process_start.process_status
       /\ upload_process' = [name |-> "process_upload",
                             file_operation |-> [op |-> op, path |-> path]]

\* put_upload_raw_path with a file m1.json in the body
PutUploadRawPath ==
    /\ Len(requests) < MaxPubRequests
    /\ \E path \in PathArgs :
          IF raw_path_allowed(path)
          THEN start_file_operation("ADD", path)
          ELSE /\ requests' = Append(requests, RawPathRequest("ADD", path, "rejected"))
               /\ UNCHANGED <<process_status, upload_process>>
    /\ UNCHANGED <<joined, raw, calcs, procs, nruns, checked, cleanups, kills>>
    /\ UNCHANGED <<staging_raw, entries, listdir_order, raw_zip, is_frozen, repacked,
                   last_read, archivevars>>
    /\ UNCHANGED <<publish_time, embargo_length, repacks, upload_name, bundlevars, runvars, stepvars, taskvars>>

\* delete_upload_raw_path
DeleteUploadRawPath ==
    /\ Len(requests) < MaxPubRequests
    /\ \E path \in PathArgs :
          IF raw_path_allowed(path) /\ staging_raw_path_exists(path)
          THEN start_file_operation("DELETE", path)
          ELSE /\ requests' = Append(requests, RawPathRequest("DELETE", path, "rejected"))
               /\ UNCHANGED <<process_status, upload_process>>
    /\ UNCHANGED <<joined, raw, calcs, procs, nruns, checked, cleanups, kills>>
    /\ UNCHANGED <<staging_raw, entries, listdir_order, raw_zip, is_frozen, repacked,
                   last_read, archivevars>>
    /\ UNCHANGED <<publish_time, embargo_length, repacks, upload_name, bundlevars, runvars, stepvars, taskvars>>

\* The mainfiles among the raw files
mainfiles_in(files) == {m \in Mainfiles : raw_path_of(m) \in files}

\* Upload.process_upload with a file operation, run by a worker: update_files
\* adds the file to the target directory or deletes the path, then the
\* upload is matched and parsed.  The processing of the entries is taken as
\* one step here, that every new entry ends with success.
ProcessUploadFileOperation ==
    /\ upload_process.name = "process_upload"
    /\ upload_process' = NoProcess
    /\ LET op == upload_process.file_operation.op
           path == upload_process.file_operation.path
       IN staging_raw' =
              IF op = "ADD"
              THEN staging_raw \cup
                       {RawPath(IF path = <<"">> THEN "" ELSE path[1], <<"m1", ".json">>)}
              ELSE staging_raw \ files_at(path, staging_raw)
    /\ calcs' = [id \in EntryIds |->
                    LET c == parse_all_entries(calcs, mainfiles_in(staging_raw'))[id]
                    IN IF c.exists /\ c.process_status = PENDING
                       THEN [c EXCEPT !.process_status = SUCCESS]
                       ELSE c]
    /\ staging_archive' =
           {ArchiveRecord(raw_path_of(m), "archive") :
                m \in {n \in mainfiles_in(staging_raw') :
                          calcs'[generate_entry_id(UploadId, n)].process_status = SUCCESS}}
    /\ process_status' = SUCCESS
    /\ UNCHANGED <<joined, raw, procs, nruns, checked, cleanups, kills>>
    /\ UNCHANGED <<entries, listdir_order, raw_zip, is_frozen, repacked, last_read,
                   archive_msg>>
    /\ UNCHANGED <<publish_time, embargo_length, repacks, upload_name, requests,
                   bundlevars, runvars, stepvars, taskvars>>

RawPathNext ==
    \/ PutUploadRawPath
    \/ DeleteUploadRawPath
    \/ ProcessUploadFileOperation

SpecRawPath == PublishInit /\ [][RawPathNext]_vars

\* A step that handles a request to add or delete files
RawPathRequested == Len(requests') = Len(requests) + 1

\* The paths of PathArgs that are no safe relative paths
UnsafePathArgs ==
    { <<"", "a">>, <<"a", "", "b">>, <<"..", "a">>, <<"a", ".">>, <<"a\nb">> }

\* C22: a request to add or to delete files is rejected, and no raw file, no
\* entry and no process status changes, whenever the upload is published,
\* the upload is processing, or the path is not a safe relative path.
C22_FileRequestsRejected ==
    [][(/\ RawPathRequested
        /\ \/ publish_time
           \/ process_running
           \/ requests'[Len(requests')].path \in UnsafePathArgs)
       => /\ requests'[Len(requests')].outcome = "rejected"
          /\ UNCHANGED <<procvars, staging_raw, entries, listdir_order, raw_zip,
                         is_frozen, repacked, last_read, archivevars, publish_time,
                         embargo_length, upload_process, repacks, upload_name,
                         bundlevars, runvars, stepvars, taskvars>>]_vars

\* After a file operation that was carried out, a request with an unsafe
\* path was rejected
C22_Witness ==
    /\ Len(requests) = 2
    /\ requests[1].outcome = "accepted"
    /\ upload_process = NoProcess
    /\ requests[2].outcome = "rejected"
    /\ requests[2].path \in UnsafePathArgs

\* ------------------------------------------------------------------------
\* One processing run of an unpublished upload: parse_all, the processing
\* of every entry, the join
\* ------------------------------------------------------------------------

\* The files of the upload that a parser can match
RunMainfiles == {"a/m1.json", "b/m2.json"}

RunEntryIds == {generate_entry_id(UploadId, m) : m \in RunMainfiles}

mainfile_of(calc_id) == calc_id[2]

\* A Calc document of the run; absent documents are NoDoc
NoDoc == [exists |-> FALSE, mainfile |-> "", process_status |-> ""]

Doc(calc_id, status) ==
    [exists |-> TRUE, mainfile |-> mainfile_of(calc_id), process_status |-> status]

\* What a parser does with a mainfile
ParserOutcomes == {"ok", "exception", "SystemExit"}

\* The places where the run calls the search index
SearchCalls == {"delete_entry", "index", "index on_fail", "refresh"}

\* The archive file that write_archive leaves for an entry: the parsed
\* results, or only the metadata and the processing logs
ArchiveOfOutcome(outcome) == IF outcome = "ok" THEN "results" ELSE "metadata"

\* The upload when the worker has started process_upload and update_files
\* is done: entries of an earlier run are processed, indexed and archived;
\* the set of matched files may have changed since.
RunInit ==
    /\ process_status = RUNNING
    /\ joined = FALSE
    /\ raw = {}
    /\ calcs = [id \in EntryIds |-> NoCalc]
    /\ procs = [p \in ProcIds |-> NoProc]
    /\ nruns = 0
    /\ checked = 0
    /\ cleanups = 0
    /\ kills = 0
    /\ staging_raw = {}
    /\ entries = [m \in PackMainfiles |-> NoEntry]
    /\ listdir_order = "ascending"
    /\ raw_zip = [public |-> {}, restricted |-> {}]
    /\ is_frozen = FALSE
    /\ repacked = FALSE
    /\ last_read = NoRead
    /\ staging_archive = {}
    /\ archive_msg = [public |-> {}, restricted |-> {}]
    /\ PublishIdle
    /\ BundleIdle
    /\ StepIdle /\ TaskIdle
    /\ \E files \in SUBSET RunMainfiles,
          old \in [RunEntryIds -> {"", SUCCESS, FAILURE}] :
          run = [pc |-> "parse_all",
                 files |-> files,
                 entries |-> [id \in RunEntryIds |->
                                 IF old[id] = "" THEN NoDoc ELSE Doc(id, old[id])],
                 has_old_entries |-> FALSE,
                 index |-> {id \in RunEntryIds : old[id] # ""},
                 archive |-> [id \in RunEntryIds |->
                                 IF old[id] = "" THEN "none"
                                 ELSE ArchiveOfOutcome(
                                          IF old[id] = SUCCESS THEN "ok"
                                          ELSE "exception")],
                 queued |-> {},
                 parser |-> [id \in RunEntryIds |-> "none"],
                 written |-> {},
                 failed_calls |-> {},
                 cleanups |-> 0]

run_entries == {id \in RunEntryIds : run.entries[id].exists}

\* parse_all: the ids of the matched mainfiles
matched_entries(files) ==
    {generate_entry_id(UploadId, f) : f \in match_mainfiles(files)}

\* parse_all: the old entries that are not matched any more
entries_to_delete_none(docs, files) == {}

entries_to_delete(docs, files) ==
    {id \in RunEntryIds : docs[id].exists /\ id \notin matched_entries(files)}

\* parse_all: Calc.create and save for every matched mainfile without entry
with_created_entries(docs, files) ==
    [id \in RunEntryIds |->
        IF id \in matched_entries(files) /\ ~docs[id].exists
        THEN Doc(id, PENDING) ELSE docs[id]]

\* Upload.parse_all up to the deletion of the unmatched entries. Each
\* deletion calls search.delete_entry first; when that call raises, the
\* loop ends there and the upload's process fails.
RunParseAll ==
    /\ run.pc = "parse_all"
    /\ LET to_delete == entries_to_delete(run.entries, run.files)
           created == with_created_entries(run.entries, run.files)
       IN \E deleted \in SUBSET to_delete :
             /\ run' = [run EXCEPT
                   !.entries = [id \in RunEntryIds |->
                                   IF id \in deleted THEN NoDoc ELSE created[id]],
                   !.index = @ \ deleted,
                   !.has_old_entries = (run_entries # {}),
                   !.failed_calls = IF deleted = to_delete THEN @
                                    ELSE @ \cup {"delete_entry"},
                   !.pc = IF deleted = to_delete THEN "process_all" ELSE "done"]
             /\ process_status' = IF deleted = to_delete THEN process_status
                                  ELSE FAILURE
    /\ UNCHANGED <<joined, raw, calcs, procs, nruns, checked, cleanups, kills>>
    /\ UNCHANGED <<staging_raw, entries, listdir_order, raw_zip, is_frozen, repacked,
                   last_read, archivevars, pubvars, bundlevars, stepvars, taskvars>>

\* Upload.cleanup within check_join: search.refresh is called first; an
\* exception of it is caught by check_join, which fails the upload.
run_join(r, refresh_ok) ==
    [r EXCEPT !.pc = "done",
              !.cleanups = @ + 1,
              !.failed_calls = IF refresh_ok THEN @ ELSE @ \cup {"refresh"}]

status_after_join(refresh_ok) == IF refresh_ok THEN SUCCESS ELSE FAILURE

\* The rest of parse_all (reset of the old entries, Calc.process_all), then
\* the upload waits for its entries and evaluates the join once itself.
RunProcessAll ==
    /\ run.pc = "process_all"
    /\ LET docs == [id \in RunEntryIds |->
                      IF run.entries[id].exists
                      THEN [run.entries[id] EXCEPT !.process_status = PENDING]
                      ELSE NoDoc]
           waiting == [run EXCEPT !.entries = docs, !.queued = run_entries,
                                  !.pc = "waiting"]
       IN IF run_entries = {}
          THEN \E refresh_ok \in BOOLEAN :
                  /\ run' = run_join(waiting, refresh_ok)
                  /\ joined' = TRUE
                  /\ process_status' = status_after_join(refresh_ok)
          ELSE /\ run' = waiting
               /\ joined' = joined
               /\ process_status' = WAITING_FOR_RESULT
    /\ UNCHANGED <<raw, calcs, procs, nruns, checked, cleanups, kills>>
    /\ UNCHANGED <<staging_raw, entries, listdir_order, raw_zip, is_frozen, repacked,
                   last_read, archivevars, pubvars, bundlevars, stepvars, taskvars>>

\* Calc.parsing: an exception or a SystemExit of the parser becomes a
\* ProcessFailure of the entry.
parsing_ignoring_system_exit(outcome) == outcome \in {"ok", "SystemExit"}

parsing(outcome) == outcome = "ok"

\* Calc.process_calc for one entry: parsing, normalizing and archiving
\* (search.index, then write_archive); on a failure on_fail indexes what is
\* there, writes the archive and, like on_success, evaluates the join.
RunProcessCalc(calc_id) ==
    /\ run.pc = "waiting"
    /\ calc_id \in run.queued
    /\ \E outcome \in ParserOutcomes, index_ok \in BOOLEAN, on_fail_index_ok \in BOOLEAN,
          refresh_ok \in BOOLEAN :
          LET parsed == parsing(outcome)
              succeeded == parsed /\ index_ok
              indexed == succeeded \/ on_fail_index_ok
              failed == (IF parsed /\ ~index_ok THEN {"index"} ELSE {})
                        \cup (IF ~succeeded /\ ~on_fail_index_ok
                              THEN {"index on_fail"} ELSE {})
              docs == [run.entries EXCEPT ![calc_id] =
                          Doc(calc_id, IF succeeded THEN SUCCESS ELSE FAILURE)]
              processed == {id \in RunEntryIds :
                               docs[id].exists
                               /\ docs[id].process_status \in {SUCCESS, FAILURE}}
              total == {id \in RunEntryIds : docs[id].exists}
              after == [run EXCEPT
                           !.entries = docs,
                           !.queued = @ \ {calc_id},
                           !.parser[calc_id] = outcome,
                           !.index = IF indexed THEN @ \cup {calc_id} ELSE @,
                           !.archive[calc_id] =
                               ArchiveOfOutcome(IF succeeded THEN "ok" ELSE "exception"),
                           !.written = @ \cup {calc_id},
                           !.failed_calls = @ \cup failed]
          IN IF process_status = WAITING_FOR_RESULT
                /\ Cardinality(processed) >= Cardinality(total)
                /\ ~joined
             THEN /\ run' = run_join(after, refresh_ok)
                  /\ joined' = TRUE
                  /\ process_status' = status_after_join(refresh_ok)
             ELSE /\ run' = after
                  /\ UNCHANGED <<joined, process_status>>
    /\ UNCHANGED <<raw, calcs, procs, nruns, checked, cleanups, kills>>
    /\ UNCHANGED <<staging_raw, entries, listdir_order, raw_zip, is_frozen, repacked,
                   last_read, archivevars, pubvars, bundlevars, stepvars, taskvars>>

RunNext ==
    \/ RunParseAll
    \/ RunProcessAll
    \/ \E calc_id \in RunEntryIds : RunProcessCalc(calc_id)

SpecRun == RunInit /\ [][RunNext]_vars


\* parse_all has run to its end: no search.delete_entry call has raised
ParseAllDone == run.pc = "parse_all" /\ run'.pc = "process_all"

\* The run is complete and every call of the search index has worked
RunCompleteSearchUp == run.pc = "done" /\ run.failed_calls = {}

\* C23: after parse_all on an unpublished upload the entries are exactly
\* those with the id of a currently matched mainfile; the entries that are
\* no longer matched are gone from the documents and from the search index,
\* the entries of newly matched mainfiles exist and are PENDING; when the
\* run completes, the search index holds exactly the entries.
C23_ParseAllEntries ==
    [][/\ ParseAllDone =>
            /\ {id \in RunEntryIds : run'.entries[id].exists}
                   = {generate_entry_id(UploadId, f) : f \in run.files}
            /\ run'.index \subseteq {id \in RunEntryIds : run'.entries[id].exists}
            /\ \A id \in RunEntryIds :
                  ~run.entries[id].exists /\ run'.entries[id].exists
                      => run'.entries[id].process_status = PENDING
       /\ RunCompleteSearchUp' =>
            run'.index = {id \in RunEntryIds : run'.entries[id].exists}]_vars

\* parse_all has deleted the entry of a vanished mainfile, and the run has
\* completed with exactly the one remaining entry in the search index
C23_Witness ==
    /\ RunCompleteSearchUp
    /\ \E id \in RunEntryIds \ run_entries : run.archive[id] # "none"
    /\ \E id \in run_entries : run.index = {id}


\* The entries whose parser has thrown or exited in this run
ParserFailed == {id \in RunEntryIds : run.parser[id] \in {"exception", "SystemExit"}}

SearchFailedInProcessing ==
    /\ run.failed_calls # {}
    /\ run.failed_calls \subseteq {"index", "index on_fail", "refresh"}

\* C25: a search-index call that fails while an entry is archived or at the
\* refresh of the join is not fatal: the run still completes and the upload
\* does not end in FAILURE.
C25_SearchFailureNotFatal ==
    /\ (SearchFailedInProcessing /\ run.pc \in {"waiting", "done"} /\ run.queued = {})
          => run.pc = "done"
    /\ (SearchFailedInProcessing /\ run.pc = "done") => process_status = SUCCESS


\* ------------------------------------------------------------------------
\* Calls of StagingUploadFiles.pack and add_rawfiles on one staging upload,
\* statement by statement
\* ------------------------------------------------------------------------

\* A file written by the pack call of caller c
Written(c, content) == [by |-> c, content |-> content]

\* The raw files that add_rawfiles may add
AddedFiles == {RawPath("a", <<"m1", ".json">>), RawPath("b", <<"m3", ".json">>)}

PackCallsInit ==
    /\ ProcessingInit
    /\ staging_raw = {}
    /\ entries = [m \in PackMainfiles |-> NoEntry]
    /\ listdir_order = "ascending"
    /\ raw_zip = [public |-> {}, restricted |-> {}]
    /\ is_frozen = FALSE
    /\ repacked = FALSE
    /\ last_read = NoRead
    /\ staging_archive = {}
    /\ archive_msg = [public |-> {}, restricted |-> {}]
    /\ OtherIdle

PackCallUnchanged ==
    /\ UNCHANGED <<entries, listdir_order, raw_zip, repacked, last_read, archivevars,
                   pubvars, bundlevars, runvars, taskvars, re_pack_pc, user_uploads,
                   create_requests, calc_dir, calc_files_result>>
    /\ UNCHANGED procvars

\* pack: `assert not self.is_frozen`
PackAssertNotFrozen(c) ==
    /\ pack_calls[c] = "none"
    /\ pack_calls' = [pack_calls EXCEPT ![c] = IF is_frozen THEN "refused" ELSE "checked"]
    /\ UNCHANGED <<is_frozen, staging_raw, public_dir>>
    /\ PackCallUnchanged

\* pack: the .frozen file is opened for writing and written
PackWriteFrozen(c) ==
    /\ pack_calls[c] = "checked"
    /\ is_frozen' = TRUE
    /\ pack_calls' = [pack_calls EXCEPT ![c] = "frozen"]
    /\ UNCHANGED <<staging_raw, public_dir>>
    /\ PackCallUnchanged

\* pack: _pack_archive_files writes archive-public and archive-restricted
PackArchiveFiles(c) ==
    /\ pack_calls[c] = "frozen"
    /\ public_dir' = [public_dir EXCEPT ![<<"archive-public", "">>] = Written(c, "complete"),
                                        ![<<"archive-restricted", "">>] = Written(c, "complete")]
    /\ pack_calls' = [pack_calls EXCEPT ![c] = "archives"]
    /\ UNCHANGED <<is_frozen, staging_raw>>
    /\ PackCallUnchanged

\* _pack_raw_files: create_zipfile opens raw-public and raw-restricted with
\* mode 'w', which truncates an existing file
PackCreateZipfiles(c) ==
    /\ pack_calls[c] = "archives"
    /\ public_dir' = [public_dir EXCEPT ![<<"raw-public", "">>] = Written(c, "empty"),
                                        ![<<"raw-restricted", "">>] = Written(c, "empty")]
    /\ pack_calls' = [pack_calls EXCEPT ![c] = "zips"]
    /\ UNCHANGED <<is_frozen, staging_raw>>
    /\ PackCallUnchanged

\* _pack_raw_files: the raw files are written to the zips and the zips are
\* closed; an exception while writing is logged and leaves the zips partial
PackRawFiles(c) ==
    /\ pack_calls[c] = "zips"
    /\ \E content \in {"complete", "partial"} :
          public_dir' = [public_dir EXCEPT ![<<"raw-public", "">>] = Written(c, content),
                                           ![<<"raw-restricted", "">>] = Written(c, content)]
    /\ pack_calls' = [pack_calls EXCEPT ![c] = "done"]
    /\ UNCHANGED <<is_frozen, staging_raw>>
    /\ PackCallUnchanged

\* pack ends with an exception after the .frozen file was written (the
\* target directory or a zip file cannot be created, the worker is stopped):
\* no statement of pack removes the .frozen file
PackFails(c) ==
    /\ pack_calls[c] \in {"frozen", "archives", "zips"}
    /\ pack_calls' = [pack_calls EXCEPT ![c] = "failed"]
    /\ UNCHANGED <<is_frozen, staging_raw, public_dir>>
    /\ PackCallUnchanged

\* add_rawfiles: `assert not self.is_frozen`, then the file is merged into
\* the raw directory
add_rawfiles(files, path) == IF is_frozen THEN files ELSE files \cup {path}

AddRawfiles ==
    /\ \E path \in AddedFiles : staging_raw' = add_rawfiles(staging_raw, path)
    /\ UNCHANGED <<is_frozen, pack_calls, public_dir>>
    /\ PackCallUnchanged

PackCallsNext ==
    \/ \E c \in PackCallers :
          \/ PackAssertNotFrozen(c)
          \/ PackWriteFrozen(c)
          \/ PackArchiveFiles(c)
          \/ PackCreateZipfiles(c)
          \/ PackRawFiles(c)
          \/ PackFails(c)
    \/ AddRawfiles

SpecPackCalls == PackCallsInit /\ [][PackCallsNext]_vars

\* The pack calls that have gone on to write public files
PackWriters == {c \in PackCallers : pack_calls[c] \in {"archives", "zips", "done"}}

\* C26: the .frozen file is tested and written in one atomic step: of two
\* pack calls on the same staging upload at most one goes on to write public
\* files; once .frozen exists, add_rawfiles adds no file.
C26_FrozenTestAndSet ==
    [][/\ Cardinality(PackWriters') <= 1
       /\ is_frozen => staging_raw' = staging_raw]_vars

\* The half of C26 that the code keeps: add_rawfiles adds nothing to a
\* frozen upload
C26_FrozenRefusesAddRawfiles ==
    [][is_frozen => staging_raw' = staging_raw]_vars

\* A pack call is made when an earlier call has failed and no other call is
\* under way
LaterPackCalled(c) ==
    /\ pack_calls[c] = "none"
    /\ pack_calls'[c] # "none"
    /\ \A d \in PackCallers \ {c} : pack_calls[d] = "failed"

\* C30: a pack that fails part-way leaves the .frozen file in place, and a
\* later pack of the same upload goes ahead and recreates the raw zips.
C30_FailedPackCanBeRepeated ==
    [][/\ (\E c \in PackCallers : pack_calls'[c] = "failed") => is_frozen'
       /\ \A c \in PackCallers : LaterPackCalled(c) => pack_calls'[c] = "checked"]_vars

\* The half of C30 that the code keeps: the .frozen file stays after a
\* failed pack
C30_FrozenLeftInPlace ==
    (\E c \in PackCallers : pack_calls[c] = "failed") => is_frozen


\* ------------------------------------------------------------------------
\* StagingUploadFiles.calc_files on one directory
\* ------------------------------------------------------------------------

\* The file names of the directory, numbered in ascending (lexicographic)
\* order; one of them is the mainfile, the others are aux files
MaxAuxFiles == auxfile_cutoff + 5

FileNames == 0..MaxAuxFiles

mainfile_basename == 3

RangeOf(seq) == {seq[i] : i \in 1..Len(seq)}

\* The loop of calc_files over os.listdir(calc_dir) from position i on:
\* every name but the mainfile's is appended and counted; with the cutoff
\* the loop is left once the count is above auxfile_cutoff.
RECURSIVE aux_files_loop(_, _, _, _)
aux_files_loop(listdir, i, aux_files, with_cutoff) ==
    IF i > Len(listdir)
    THEN aux_files
    ELSE LET appended == IF listdir[i] # mainfile_basename
                         THEN Append(aux_files, listdir[i])
                         ELSE aux_files
         IN IF with_cutoff /\ Len(appended) > auxfile_cutoff
            THEN appended
            ELSE aux_files_loop(listdir, i + 1, appended, with_cutoff)

\* calc_files(mainfile, with_mainfile, with_cutoff) for the directory
calc_files_of_directory(listdir, with_mainfile, with_cutoff) ==
    IF mainfile_basename \notin RangeOf(listdir)
    THEN [called |-> TRUE, KeyError |-> TRUE, files |-> <<>>,
          with_mainfile |-> with_mainfile, with_cutoff |-> with_cutoff]
    ELSE LET aux_files == SortSeq(aux_files_loop(listdir, 1, <<>>, with_cutoff),
                                  LAMBDA f, g : f < g)
         IN [called |-> TRUE, KeyError |-> FALSE,
             files |-> IF with_mainfile THEN <<mainfile_basename>> \o aux_files
                       ELSE aux_files,
             with_mainfile |-> with_mainfile, with_cutoff |-> with_cutoff]

CalcFilesInit ==
    /\ ProcessingInit
    /\ staging_raw = {}
    /\ entries = [m \in PackMainfiles |-> NoEntry]
    /\ listdir_order = "ascending"
    /\ raw_zip = [public |-> {}, restricted |-> {}]
    /\ is_frozen = FALSE
    /\ repacked = FALSE
    /\ last_read = NoRead
    /\ staging_archive = {}
    /\ archive_msg = [public |-> {}, restricted |-> {}]
    /\ OtherIdle

CalcFilesUnchanged ==
    /\ UNCHANGED <<staging_raw, entries, listdir_order, raw_zip, is_frozen, repacked,
                   last_read, archivevars, pubvars, bundlevars, runvars, taskvars, pack_calls,
                   public_dir, re_pack_pc, user_uploads, create_requests>>
    /\ UNCHANGED procvars

\* A file is put into the directory; os.listdir returns the names in the
\* order of the file system, here the order in which they were put.
AddFileToDirectory ==
    /\ \E filename \in FileNames \ RangeOf(calc_dir) :
          calc_dir' = Append(calc_dir, filename)
    /\ calc_files_result' = NoResult
    /\ CalcFilesUnchanged

CalcFiles ==
    /\ \E with_mainfile \in BOOLEAN, with_cutoff \in BOOLEAN :
          calc_files_result' = calc_files_of_directory(calc_dir, with_mainfile, with_cutoff)
    /\ UNCHANGED calc_dir
    /\ CalcFilesUnchanged

CalcFilesNext ==
    \/ AddFileToDirectory
    \/ CalcFiles

SpecCalcFiles == CalcFilesInit /\ [][CalcFilesNext]_vars

\* calc_files was called for the entry (with the mainfile, with the cutoff)
\* in a directory of one mainfile and auxfile_cutoff + 5 aux files
CalcFilesOfFullDirectory ==
    /\ calc_files_result.called
    /\ ~calc_files_result.KeyError
    /\ calc_files_result.with_mainfile
    /\ calc_files_result.with_cutoff
    /\ Len(calc_dir) = MaxAuxFiles + 1

\* C29: for a directory of one mainfile and auxfile_cutoff + 5 aux files,
\* files(entry) holds the mainfile and exactly auxfile_cutoff aux files, the
\* aux files in ascending order.
C29_ExactlyCutoffAuxFiles ==
    CalcFilesOfFullDirectory =>
        LET files == calc_files_result.files
        IN /\ files[1] = mainfile_basename
           /\ Len(files) = 1 + auxfile_cutoff
           /\ \A i \in 2..Len(files), j \in 2..Len(files) : i < j => files[i] < files[j]
           /\ \A i \in 2..Len(files) : files[i] # mainfile_basename

\* What the code keeps of C29: the mainfile is first and the aux files are
\* in ascending order, but there are auxfile_cutoff + 1 of them
C29_CutoffPlusOneAuxFiles ==
    CalcFilesOfFullDirectory =>
        LET files == calc_files_result.files
        IN /\ files[1] = mainfile_basename
           /\ Len(files) = 2 + auxfile_cutoff
           /\ \A i \in 2..Len(files), j \in 2..Len(files) : i < j => files[i] < files[j]
           /\ \A i \in 2..Len(files) : files[i] # mainfile_basename


\* ------------------------------------------------------------------------
\* PublicUploadFiles.re_pack, statement by statement
\* ------------------------------------------------------------------------

Original(file) == <<file, "">>

Repacked(file) == <<file, "repacked">>

\* The list `files` of re_pack: for each access the msg file, then the raw
\* file
RePackFiles == <<"archive-public", "raw-public", "archive-restricted", "raw-restricted">>

\* A published upload: the four files are there, complete, and no repacked
\* file exists
RePackInit ==
    /\ ProcessingInit
    /\ staging_raw = {}
    /\ entries = [m \in PackMainfiles |-> NoEntry]
    /\ listdir_order = "ascending"
    /\ raw_zip = [public |-> {}, restricted |-> {}]
    /\ is_frozen = FALSE
    /\ repacked = FALSE
    /\ last_read = NoRead
    /\ staging_archive = {}
    /\ archive_msg = [public |-> {}, restricted |-> {}]
    /\ PublishIdle
    /\ BundleIdle
    /\ RunIdle
    /\ pack_calls = [c \in PackCallers |-> "none"]
    /\ public_dir = [name \in PublicFileNames \cup RepackedFileNames |->
                        IF name \in PublicFileNames THEN "old" ELSE "none"]
    /\ re_pack_pc = NoCall
    /\ user_uploads = 0
    /\ create_requests = [c \in CreateRequests |-> "none"]
    /\ calc_dir = <<>>
    /\ calc_files_result = NoResult
    /\ TaskIdle

\* Where a call of re_pack stands: the step and the file it is at
At(step, file) == <<step, file>>

Ended(how) == <<"ended", how>>

IndexOf(file) == CHOOSE i \in 1..Len(RePackFiles) : RePackFiles[i] = file

RePackUnchanged ==
    /\ UNCHANGED <<staging_raw, entries, listdir_order, raw_zip, is_frozen, repacked,
                   last_read, archivevars, pubvars, bundlevars, runvars, taskvars, pack_calls,
                   user_uploads, create_requests, calc_dir, calc_files_result>>
    /\ UNCHANGED procvars

\* re_pack: `if repacked_file.exists(): raise FileExistsError` for every
\* file of the list
repacked_file_exists == \E file \in PublicFiles : public_dir[Repacked(file)] # "none"

RePackCheck ==
    /\ re_pack_pc = NoCall
    /\ re_pack_pc' = IF repacked_file_exists THEN Ended("FileExistsError")
                     ELSE At("open", "archive-public")
    /\ UNCHANGED public_dir
    /\ RePackUnchanged

\* _pack_archive_files with the write_msgfile of re_pack: the repacked msg
\* file is opened and is there, not yet complete
RePackOpenMsgfile(file) ==
    /\ re_pack_pc = At("open", file)
    /\ public_dir' = [public_dir EXCEPT ![Repacked(file)] = "partial"]
    /\ re_pack_pc' = At("write", file)
    /\ RePackUnchanged

\* the msg file is written to its end; or the write raises, which
\* _pack_archive_files logs and which ends the writing of the msg files
RePackWriteMsgfile(file, next) ==
    /\ re_pack_pc = At("write", file)
    /\ \/ /\ public_dir' = [public_dir EXCEPT ![Repacked(file)] = "new"]
          /\ re_pack_pc' = At("open", next)
       \/ /\ UNCHANGED public_dir
          /\ re_pack_pc' = At("open", "raw")
    /\ RePackUnchanged

\* _pack_raw_files with the create_zipfile of re_pack: both repacked zips are
\* opened with mode 'w'
RePackCreateZipfiles ==
    /\ re_pack_pc = At("open", "raw")
    /\ public_dir' = [public_dir EXCEPT ![Repacked("raw-public")] = "partial",
                                        ![Repacked("raw-restricted")] = "partial"]
    /\ re_pack_pc' = At("write", "raw")
    /\ RePackUnchanged

\* the raw files are written and the zips are closed; or a write raises,
\* which _pack_raw_files logs before it closes the zips
RePackWriteZipfiles ==
    /\ re_pack_pc = At("write", "raw")
    /\ \E content \in {"new", "partial"} :
          public_dir' = [public_dir EXCEPT ![Repacked("raw-public")] = content,
                                           ![Repacked("raw-restricted")] = content]
    /\ re_pack_pc' = At("move", RePackFiles[1])
    /\ RePackUnchanged

\* re_pack: shutil.move(repacked_file, public_file) for one file of the
\* list; the move of a file that is not there raises
RePackMove(file) ==
    /\ re_pack_pc = At("move", file)
    /\ LET i == IndexOf(file)
       IN IF public_dir[Repacked(file)] = "none"
          THEN /\ re_pack_pc' = Ended("FileNotFoundError")
               /\ UNCHANGED public_dir
          ELSE /\ public_dir' = [public_dir EXCEPT
                                    ![Original(file)] = public_dir[Repacked(file)],
                                    ![Repacked(file)] = "none"]
               /\ re_pack_pc' = IF i = Len(RePackFiles) THEN Ended("done")
                                ELSE At("move", RePackFiles[i + 1])
    /\ RePackUnchanged

\* re_pack is called again when the call before has ended
RePackReturn ==
    /\ re_pack_pc[1] = "ended"
    /\ re_pack_pc' = NoCall
    /\ UNCHANGED public_dir
    /\ RePackUnchanged

RePackNext ==
    \/ RePackCheck
    \/ RePackOpenMsgfile("archive-public")
    \/ RePackWriteMsgfile("archive-public", "archive-restricted")
    \/ RePackOpenMsgfile("archive-restricted")
    \/ RePackWriteMsgfile("archive-restricted", "raw")
    \/ RePackCreateZipfiles
    \/ RePackWriteZipfiles
    \/ \E file \in PublicFiles : RePackMove(file)
    \/ RePackReturn

SpecRePack == RePackInit /\ [][RePackNext]_vars

\* A reader of an original file name finds a complete file
CompleteFiles == \A file \in PublicFiles : public_dir[Original(file)] \in {"old", "new"}

\* C27: re_pack writes the new files under the repacked names and renames
\* them over the originals afterwards, so that at every moment each original
\* file name holds the complete old or the complete new file; re_pack
\* refuses to start when a repacked file exists.
C27_RepackReplacesAtomically ==
    [][/\ CompleteFiles'
       /\ (re_pack_pc = NoCall /\ repacked_file_exists)
              => re_pack_pc' = Ended("FileExistsError")]_vars

\* What the code keeps of C27: nothing is written under an original name
\* before all repacked files are written, and re_pack refuses to start when
\* a repacked file exists
C27_WritesBeforeRenames ==
    [][/\ (\E file \in PublicFiles : public_dir'[Original(file)] # public_dir[Original(file)])
              => re_pack_pc[1] = "move"
       /\ (re_pack_pc = NoCall /\ repacked_file_exists)
              => (re_pack_pc' = Ended("FileExistsError") /\ public_dir' = public_dir)]_vars


\* ------------------------------------------------------------------------
\* post_upload requests of one user who is not an admin
\* ------------------------------------------------------------------------

\* config.services.upload_limit
upload_limit == 2

CreateInit ==
    /\ ProcessingInit
    /\ staging_raw = {}
    /\ entries = [m \in PackMainfiles |-> NoEntry]
    /\ listdir_order = "ascending"
    /\ raw_zip = [public |-> {}, restricted |-> {}]
    /\ is_frozen = FALSE
    /\ repacked = FALSE
    /\ last_read = NoRead
    /\ staging_archive = {}
    /\ archive_msg = [public |-> {}, restricted |-> {}]
    /\ PublishIdle
    /\ BundleIdle
    /\ RunIdle
    /\ pack_calls = [c \in PackCallers |-> "none"]
    /\ public_dir = [name \in PublicFileNames \cup RepackedFileNames |-> "none"]
    /\ re_pack_pc = NoCall
    /\ user_uploads \in 0..upload_limit
    /\ create_requests = [c \in CreateRequests |-> "none"]
    /\ calc_dir = <<>>
    /\ calc_files_result = NoResult
    /\ TaskIdle

CreateUnchanged ==
    /\ UNCHANGED <<staging_raw, entries, listdir_order, raw_zip, is_frozen, repacked,
                   last_read, archivevars, pubvars, bundlevars, runvars, taskvars, pack_calls,
                   public_dir, re_pack_pc, calc_dir, calc_files_result>>
    /\ UNCHANGED procvars

\* post_upload: the count of the user's uploads without publish_time is
\* compared with the limit. The query names the field user_id, which the
\* Upload document of processing/data.py does not define (it has
\* main_author): the query raises, or it counts as in the version of Upload
\* that the handler is written for.
limit_exceeded(count) == count >= upload_limit

PostUploadCheckLimit(c) ==
    /\ create_requests[c] = "none"
    /\ \E query_works \in BOOLEAN :
          create_requests' = [create_requests EXCEPT ![c] =
              IF ~query_works THEN "error"
              ELSE IF limit_exceeded(user_uploads) THEN "rejected"
              ELSE "checked"]
    /\ UNCHANGED user_uploads
    /\ CreateUnchanged

\* post_upload after `await _get_file_if_provided(...)`: Upload.create and
\* the staging files. Upload.create is called with user=..., which the
\* Upload.create of processing/data.py does not take as the main author: the
\* call raises, or it creates the upload as in the version the handler is
\* written for.
PostUploadCreate(c) ==
    /\ create_requests[c] = "checked"
    /\ \E create_works \in BOOLEAN :
          /\ create_requests' = [create_requests EXCEPT ![c] =
                                    IF create_works THEN "created" ELSE "error"]
          /\ user_uploads' = IF create_works THEN user_uploads + 1 ELSE user_uploads
    /\ CreateUnchanged

\* The response is sent; the user may send the next request
PostUploadReturn(c) ==
    /\ create_requests[c] \in {"created", "rejected", "error"}
    /\ create_requests' = [create_requests EXCEPT ![c] = "none"]
    /\ UNCHANGED user_uploads
    /\ CreateUnchanged

\* One of the user's uploads is published or deleted
UploadLeavesUnpublished ==
    /\ user_uploads > 0
    /\ user_uploads' = user_uploads - 1
    /\ UNCHANGED create_requests
    /\ CreateUnchanged

CreateNext ==
    \/ \E c \in CreateRequests :
          \/ PostUploadCheckLimit(c)
          \/ PostUploadCreate(c)
          \/ PostUploadReturn(c)
    \/ UploadLeavesUnpublished

SpecCreate == CreateInit /\ [][CreateNext]_vars

C28_RejectedAtTheCheck ==
    [][\A c \in CreateRequests :
          (create_requests[c] = "none" /\ create_requests'[c] # "none"
           /\ user_uploads >= upload_limit)
              => (create_requests'[c] \in {"rejected", "error"}
                  /\ user_uploads' = user_uploads)]_vars


\* ------------------------------------------------------------------------
\* Calc.process_calc, step by step
\* ------------------------------------------------------------------------

\* What match_parser returns for the mainfile of an entry that was processed
\* with the parser "old": no parser, the same parser, the same parser under
\* a new name (parser_dict maps the old name to it), or another parser
ParserMatches == {"none", "same", "renamed", "changed"}

\* parser.name of the matched parser
matched_parser_name(match) == IF match = "same" THEN "old" ELSE match

\* The steps of process_calc in the order of the code
ProcessSteps == <<"parsing", "normalizing", "archiving">>

\* The entry task is scheduled: the entry is PENDING. The inputs are the
\* upload (published or not, its entry's old record in archive-public or in
\* archive-restricted), the entry (nomad_version set or not) and the
\* reprocess settings.
TaskInit ==
    /\ ProcessingInit
    /\ staging_raw = {}
    /\ entries = [m \in PackMainfiles |-> NoEntry]
    /\ listdir_order = "ascending"
    /\ raw_zip = [public |-> {}, restricted |-> {}]
    /\ is_frozen = FALSE
    /\ repacked = FALSE
    /\ last_read = NoRead
    /\ staging_archive = {}
    /\ archive_msg = [public |-> {}, restricted |-> {}]
    /\ PublishIdle
    /\ BundleIdle
    /\ RunIdle
    /\ StepIdle
    /\ \E published \in BOOLEAN, is_initial_processing \in BOOLEAN,
          unchanged \in BOOLEAN, changed \in BOOLEAN,
          match \in ParserMatches, access \in {"public", "restricted"} :
          task = [pc |-> "pending",
                  published |-> published,
                  is_initial_processing |-> is_initial_processing,
                  reparse_if_parser_unchanged |-> unchanged,
                  reparse_if_parser_changed |-> changed,
                  match |-> match,
                  access |-> access,
                  parser_name |-> "old",
                  should_parse |-> FALSE,
                  process_status |-> PENDING,
                  saved_status |-> PENDING,
                  steps |-> <<>>,
                  archive |-> "none",
                  check_joins |-> 0,
                  killed |-> FALSE]
    /\ parse_all_call = NoParseAll
    /\ deletion = NoDeletion
    /\ areas = NoAreas

TaskUnchanged ==
    /\ UNCHANGED <<staging_raw, entries, listdir_order, raw_zip, is_frozen, repacked,
                   last_read, archivevars, pubvars, bundlevars, runvars, stepvars,
                   parse_all_call, deletion, areas>>
    /\ UNCHANGED procvars

\* The worker takes the task: the entry is RUNNING
ProcessCalcStart ==
    /\ task.pc = "pending"
    /\ task' = [task EXCEPT !.pc = "determine",
                            !.process_status = RUNNING,
                            !.saved_status = RUNNING]
    /\ TaskUnchanged

\* process_calc, 1. Determine if we should parse or not
parser_changed(t) ==
    /\ t.parser_name # matched_parser_name(t.match)
    /\ t.match # "renamed"

should_parse(t) ==
    IF ~t.published \/ t.is_initial_processing
    THEN TRUE
    ELSE /\ t.reparse_if_parser_unchanged \/ t.reparse_if_parser_changed
         /\ t.match # "none"
         /\ \/ t.reparse_if_parser_unchanged /\ ~parser_changed(t)
            \/ t.reparse_if_parser_changed /\ parser_changed(t)

\* "if should_parse and self.parser_name != parser.name:
\*      self.parser_name = parser.name", in the branch of a published upload
\* whose entry was processed before
parser_name_determined(t) ==
    IF /\ t.published /\ ~t.is_initial_processing
       /\ should_parse(t)
       /\ t.parser_name # matched_parser_name(t.match)
    THEN matched_parser_name(t.match)
    ELSE t.parser_name

DetermineAction ==
    /\ task.pc = "determine"
    /\ task' = [task EXCEPT !.pc = IF should_parse(task) THEN "parsing" ELSE "preserve",
                            !.should_parse = should_parse(task),
                            !.parser_name = parser_name_determined(task)]
    /\ TaskUnchanged

\* 2a. self.parsing(), self.normalizing(), self.archiving(): a step returns
\* and the next one runs, or it raises and process_calc is left
ProcessStep(i) ==
    /\ task.pc = ProcessSteps[i]
    /\ \E raises \in BOOLEAN :
          task' = [task EXCEPT
                      !.steps = Append(@, ProcessSteps[i]),
                      !.pc = IF raises THEN "fail"
                             ELSE IF i < Len(ProcessSteps) THEN ProcessSteps[i + 1]
                             ELSE "succeed",
                      !.archive = IF ~raises /\ i = Len(ProcessSteps) THEN "new" ELSE @]
    /\ TaskUnchanged

\* PublicUploadFiles(self.upload_id).read_archive(self.calc_id): the upload
\* files are made without is_authorized, which defaults to lambda: False
read_public_archive(access) ==
    IF access = "restricted" THEN "Restricted" ELSE "old"

\* 2b. Keep published entry as it is: the old record is read from the
\* public msg archive and written to staging; an exception is logged and
\* raised again
PreserveEntry ==
    /\ task.pc = "preserve"
    /\ LET archive == read_public_archive(task.access)
       IN task' = IF archive = "Restricted"
                  THEN [task EXCEPT !.pc = "fail"]
                  ELSE [task EXCEPT !.pc = "succeed", !.archive = archive]
    /\ TaskUnchanged

\* nomad admin uploads stop --kill --calcs: the celery task is revoked with
\* terminate and the command calls process.fail
TaskKill ==
    /\ task.pc \in {"pending", "determine", "preserve"} \cup RangeOf(ProcessSteps)
    /\ task' = [task EXCEPT !.pc = "fail", !.killed = TRUE]
    /\ TaskUnchanged

\* The exception of process_calc fails the process: the entry is FAILURE and
\* on_fail writes the archive of the failed entry (an exception of
\* write_archive is logged), then calls _check_join
TaskFail ==
    /\ task.pc = "fail"
    /\ \E written \in BOOLEAN :
          task' = [task EXCEPT !.pc = "check_join",
                               !.process_status = FAILURE,
                               !.archive = IF written THEN "minimal" ELSE @]
    /\ TaskUnchanged

\* process_calc returns: the entry is SUCCESS and on_success calls
\* _check_join
TaskSucceed ==
    /\ task.pc = "succeed"
    /\ task' = [task EXCEPT !.pc = "check_join", !.process_status = SUCCESS]
    /\ TaskUnchanged

\* Calc._check_join: self.save()
check_join_without_save(t) == t

check_join_save(t) == [t EXCEPT !.saved_status = t.process_status]

\* Calc._check_join: self.save(); self.upload.reload();
\* self.upload.check_join()
TaskCheckJoin ==
    /\ task.pc = "check_join"
    /\ task' = [check_join_save(task) EXCEPT !.pc = "ended",
                                             !.check_joins = @ + 1]
    /\ TaskUnchanged

TaskNext ==
    \/ ProcessCalcStart
    \/ DetermineAction
    \/ \E i \in 1..Len(ProcessSteps) : ProcessStep(i)
    \/ PreserveEntry
    \/ TaskKill
    \/ TaskFail
    \/ TaskSucceed
    \/ TaskCheckJoin

SpecEntryTask == TaskInit /\ [][TaskNext]_vars

IsPrefix(seq, of) == Len(seq) <= Len(of) /\ \A i \in 1..Len(seq) : seq[i] = of[i]

AlreadyProcessed ==
    /\ task # NoTask
    /\ task.published
    /\ ~task.is_initial_processing
    /\ ~task.killed
    /\ task.pc \notin {"pending", "determine"}

\* process_calc takes the branch 2a
ParsedAgain == task.should_parse

ReparseCondition ==
    \/ task.match \in {"same", "renamed"} /\ task.reparse_if_parser_unchanged
    \/ task.match = "changed" /\ task.reparse_if_parser_changed

\* C33: during the reprocess of a published upload an already-processed
\* entry is parsed again only if its parser is unchanged and
\* reparse_if_parser_unchanged is set, or its parser changed and
\* reparse_if_parser_changed is set; otherwise the task ends with the old
\* archive record copied to staging and with the parser_name it had.
C33_ReparseOrKeepVerbatim ==
    AlreadyProcessed =>
        /\ ParsedAgain => ReparseCondition
        /\ (task.pc = "ended" /\ ~ReparseCondition)
              => (/\ task.archive = "old"
                  /\ task.parser_name = "old"
                  /\ task.process_status = SUCCESS)

\* What the code keeps of C33: the decision, and the parser_name of an
\* entry that is not parsed again
C33_ReparseDecision ==
    AlreadyProcessed =>
        /\ ParsedAgain => ReparseCondition
        /\ ~ParsedAgain => task.parser_name = "old"
        /\ (task.pc = "ended" /\ ~ReparseCondition /\ task.access = "public")
              => (task.archive = "old" /\ task.process_status = SUCCESS)

\* The entry is under embargo and is not to be parsed again: the task ends
\* in FAILURE
C33_KeptEntryFails ==
    /\ AlreadyProcessed
    /\ ~ReparseCondition
    /\ task.access = "restricted"
    /\ task.pc = "ended"
    /\ task.process_status = FAILURE


\* ------------------------------------------------------------------------
\* Upload.parse_all on an upload with entries of an earlier run
\* ------------------------------------------------------------------------

\* What match_mainfiles yields for a file: nothing, or the name of the
\* parser that matches
FileMatches == {"none", "old", "new"}

\* A Calc document of the upload; "" stands for no document
EntryParserNames == {"", "old"}

ParseAllInit ==
    /\ ProcessingInit
    /\ staging_raw = {}
    /\ entries = [m \in PackMainfiles |-> NoEntry]
    /\ listdir_order = "ascending"
    /\ raw_zip = [public |-> {}, restricted |-> {}]
    /\ is_frozen = FALSE
    /\ repacked = FALSE
    /\ last_read = NoRead
    /\ staging_archive = {}
    /\ archive_msg = [public |-> {}, restricted |-> {}]
    /\ PublishIdle
    /\ BundleIdle
    /\ RunIdle
    /\ StepIdle
    /\ task = NoTask
    /\ deletion = NoDeletion
    /\ areas = NoAreas
    /\ \E published \in BOOLEAN, delete_unmatched \in BOOLEAN, add_newfound \in BOOLEAN,
          matches \in [RunMainfiles -> FileMatches],
          old \in [RunMainfiles -> EntryParserNames] :
          parse_all_call = [pc |-> "matching",
                            published |-> published,
                            delete_unmatched_published_entries |-> delete_unmatched,
                            add_newfound_entries_to_published |-> add_newfound,
                            matches |-> matches,
                            old_entries |-> old,
                            parser_name |-> old,
                            matched_entries |-> {},
                            process_status |-> [m \in RunMainfiles |->
                                                   IF old[m] = "" THEN "" ELSE SUCCESS]]

ParseAllUnchanged ==
    /\ UNCHANGED <<staging_raw, entries, listdir_order, raw_zip, is_frozen, repacked,
                   last_read, archivevars, pubvars, bundlevars, runvars, stepvars, task,
                   deletion, areas>>
    /\ UNCHANGED procvars

\* "if not self.published or settings.add_newfound_entries_to_published"
may_create_always(published, add_newfound) == TRUE

may_create(published, add_newfound) == ~published \/ add_newfound

\* "if not self.published or settings.delete_unmatched_published_entries"
may_delete(published, delete_unmatched) == ~published \/ delete_unmatched

\* The loop over match_mainfiles for one file: the parser_name of its entry
\* afterwards ("" for no entry)
parser_name_after_match(c, m) ==
    IF c.matches[m] = "none"
    THEN c.parser_name[m]
    ELSE IF c.parser_name[m] # ""
         THEN IF ~c.published /\ c.matches[m] # c.parser_name[m]
              THEN c.matches[m]
              ELSE c.parser_name[m]
         ELSE IF may_create(c.published, c.add_newfound_entries_to_published)
              THEN c.matches[m]
              ELSE ""

\* parse_all: "for filename, parser in self.match_mainfiles()"
ParseAllMatching ==
    /\ parse_all_call.pc = "matching"
    /\ LET c == parse_all_call
           after == [m \in RunMainfiles |-> parser_name_after_match(c, m)]
       IN parse_all_call' =
              [c EXCEPT !.pc = "deleting",
                        !.parser_name = after,
                        !.matched_entries = {m \in RunMainfiles :
                                                c.matches[m] # "none" /\ after[m] # ""},
                        !.process_status = [m \in RunMainfiles |->
                            IF c.parser_name[m] = "" /\ after[m] # ""
                            THEN PENDING ELSE c.process_status[m]]]
    /\ ParseAllUnchanged

\* parse_all: "Done matching. Examine old unmatched entries", "Delete
\* entries"
ParseAllDeleting ==
    /\ parse_all_call.pc = "deleting"
    /\ LET c == parse_all_call
           to_delete ==
               {m \in RunMainfiles :
                   /\ c.old_entries[m] # ""
                   /\ m \notin c.matched_entries
                   /\ may_delete(c.published, c.delete_unmatched_published_entries)}
       IN parse_all_call' =
              [c EXCEPT !.pc = "resetting",
                        !.parser_name = [m \in RunMainfiles |->
                            IF m \in to_delete THEN "" ELSE c.parser_name[m]],
                        !.process_status = [m \in RunMainfiles |->
                            IF m \in to_delete THEN "" ELSE c.process_status[m]]]
    /\ ParseAllUnchanged

\* parse_all: "reset all calcs" if the upload had entries, and
\* Calc.process_all: every entry of the upload is PENDING
ParseAllProcessAll ==
    /\ parse_all_call.pc = "resetting"
    /\ parse_all_call' =
           [parse_all_call EXCEPT
               !.pc = "done",
               !.process_status = [m \in RunMainfiles |->
                   IF parse_all_call.parser_name[m] = "" THEN "" ELSE PENDING]]
    /\ ParseAllUnchanged

ParseAllNext ==
    \/ ParseAllMatching
    \/ ParseAllDeleting
    \/ ParseAllProcessAll

SpecParseAll == ParseAllInit /\ [][ParseAllNext]_vars

ParseAllOfPublished ==
    /\ parse_all_call # NoParseAll
    /\ parse_all_call.published

\* C32: when parse_all runs on a published upload, an entry whose mainfile
\* is not matched any more is deleted only if
\* delete_unmatched_published_entries is set, a newly matched mainfile gets
\* an entry only if add_newfound_entries_to_published is set, and the
\* parser_name of every entry that existed and exists is the one it had.
C32_PublishedEntriesKept ==
    ParseAllOfPublished =>
        LET c == parse_all_call
        IN \A m \in RunMainfiles :
              /\ (c.old_entries[m] # "" /\ c.parser_name[m] = "")
                    => (c.delete_unmatched_published_entries /\ c.matches[m] = "none")
              /\ (c.old_entries[m] = "" /\ c.parser_name[m] # "")
                    => (c.add_newfound_entries_to_published /\ c.matches[m] # "none")
              /\ (c.old_entries[m] # "" /\ c.parser_name[m] # "")
                    => c.parser_name[m] = c.old_entries[m]

\* parse_all on a published upload is done: with the settings set, one
\* entry was deleted and one created; an entry that another parser matches
\* now has kept its parser_name
C32_Witness ==
    /\ ParseAllOfPublished
    /\ parse_all_call.pc = "done"
    /\ \E m \in RunMainfiles :
          parse_all_call.old_entries[m] # "" /\ parse_all_call.parser_name[m] = ""
    /\ \E m \in RunMainfiles :
          parse_all_call.old_entries[m] = "" /\ parse_all_call.parser_name[m] # ""

\* the same without the settings: an unmatched entry and an entry that
\* another parser matches are there as before
C32_WitnessKept ==
    /\ ParseAllOfPublished
    /\ parse_all_call.pc = "done"
    /\ ~parse_all_call.delete_unmatched_published_entries
    /\ \E m \in RunMainfiles :
          /\ parse_all_call.matches[m] = "none"
          /\ parse_all_call.parser_name[m] = "old"


\* ------------------------------------------------------------------------
\* delete_upload (API handler) and Upload.delete_upload
\* ------------------------------------------------------------------------

\* What is stored of an upload, in the order in which delete_upload_local
\* removes it; "files" are the files of self.upload_files. The field
\* `removed` of a deletion lists what the running call has removed.
DeleteOrder == <<"index", "partial archives", "files", "records">>

\* An upload that is not being deleted: in staging with its staging files,
\* or published with its public files; in any process status
DeleteInit ==
    /\ ProcessingInit
    /\ staging_raw = {}
    /\ entries = [m \in PackMainfiles |-> NoEntry]
    /\ listdir_order = "ascending"
    /\ raw_zip = [public |-> {}, restricted |-> {}]
    /\ is_frozen = FALSE
    /\ repacked = FALSE
    /\ last_read = NoRead
    /\ staging_archive = {}
    /\ archive_msg = [public |-> {}, restricted |-> {}]
    /\ PublishIdle
    /\ BundleIdle
    /\ RunIdle
    /\ StepIdle
    /\ task = NoTask
    /\ parse_all_call = NoParseAll
    /\ areas = NoAreas
    /\ \E published \in BOOLEAN, is_admin \in BOOLEAN,
          status \in {READY, SUCCESS, FAILURE} :
          deletion = [pc |-> "idle",
                      is_admin |-> is_admin,
                      published |-> published,
                      process_status |-> status,
                      index |-> TRUE,
                      partial_archives |-> TRUE,
                      staging_files |-> ~published,
                      public_files |-> published,
                      records |-> TRUE,
                      removed |-> <<>>,
                      reprocessed |-> FALSE]

DeleteUnchanged ==
    /\ UNCHANGED <<staging_raw, entries, listdir_order, raw_zip, is_frozen, repacked,
                   last_read, archivevars, pubvars, bundlevars, runvars, stepvars, task,
                   parse_all_call, areas>>
    /\ UNCHANGED procvars

\* Another request starts a process on the upload (and a worker ends it)
\* while the delete request is with the handler. For a published upload
\* this is a reprocess: update_files extracts the public files to staging,
\* and _cleanup_after_processing packs and then removes the staging files;
\* an exception in cleanup fails the process in check_join and the staging
\* files stay.
OtherProcessStarts ==
    /\ deletion.pc \in {"idle", "checked"}
    /\ deletion.process_status \notin STATUSES_PROCESSING
    /\ deletion' = [deletion EXCEPT
                       !.process_status = RUNNING,
                       !.staging_files = TRUE,
                       !.reprocessed = @ \/ deletion.published]
    /\ DeleteUnchanged

OtherProcessEnds ==
    /\ deletion.pc \in {"idle", "checked"}
    /\ deletion.process_status = RUNNING
    /\ LET cleanup_works ==
               ~deletion.published
                   \/ binds(pack_signature, 1, {"with_embargo", "create", "include_raw"})
       IN deletion' = [deletion EXCEPT
                          !.process_status = IF cleanup_works THEN SUCCESS ELSE FAILURE,
                          !.staging_files = IF deletion.published THEN ~cleanup_works ELSE @]
    /\ DeleteUnchanged

\* _get_upload_with_write_access(upload_id, user, include_published=True,
\* published_requires_admin=True), for the main author or an admin
write_access(is_admin, published) == ~(published /\ ~is_admin)

\* delete_upload (handler): _get_upload_with_write_access and
\* _check_upload_not_processing. The access check reads upload.user_id,
\* which the Upload document of processing/data.py does not define: the
\* read raises, or it gives the main author as in the version of Upload
\* that the handler is written for.
DeleteRequestCheck ==
    /\ deletion.pc = "idle"
    /\ \E read_works \in BOOLEAN :
          deletion' = [deletion EXCEPT !.pc =
              IF ~read_works THEN "error"
              ELSE IF ~write_access(deletion.is_admin, deletion.published) THEN "401"
              ELSE IF deletion.process_status \in STATUSES_PROCESSING THEN "400"
              ELSE "checked"]
    /\ DeleteUnchanged

\* upload.delete_upload(): the @process call starts the process unless one
\* is running (ProcessAlreadyRunning, answered with 400)
DeleteRequestStart ==
    /\ deletion.pc = "checked"
    /\ deletion' = IF deletion.process_status \in STATUSES_PROCESSING
                   THEN [deletion EXCEPT !.pc = "400"]
                   ELSE [deletion EXCEPT !.pc = "accepted", !.process_status = PENDING,
                                         !.removed = <<>>]
    /\ DeleteUnchanged

\* The worker takes the process
DeleteUploadBegin ==
    /\ deletion.pc = "accepted"
    /\ deletion' = [deletion EXCEPT !.pc = DeleteOrder[1], !.process_status = RUNNING]
    /\ DeleteUnchanged

\* self.upload_files.delete(): the public files of a published upload, the
\* staging files of an upload that is not published
delete_upload_files(d) ==
    IF d.published THEN [d EXCEPT !.public_files = FALSE]
    ELSE [d EXCEPT !.staging_files = FALSE]

removed_from(d, store) ==
    CASE store = "index" -> [d EXCEPT !.index = FALSE]
      [] store = "partial archives" -> [d EXCEPT !.partial_archives = FALSE]
      [] store = "files" -> delete_upload_files(d)
      [] store = "records" -> [d EXCEPT !.records = FALSE]

\* delete_upload_local: search.delete_upload, delete_partial_archives_from_mongo,
\* self.upload_files.delete(), self.delete(); an exception is logged and
\* raised again, which fails the process
DeleteUploadLocal(i) ==
    /\ deletion.pc = DeleteOrder[i]
    /\ \E raises \in BOOLEAN :
          deletion' =
              IF raises
              THEN [deletion EXCEPT !.pc = "failed", !.process_status = FAILURE]
              ELSE [removed_from(deletion, DeleteOrder[i]) EXCEPT
                       !.removed = Append(@, DeleteOrder[i]),
                       !.pc = IF i < Len(DeleteOrder) THEN DeleteOrder[i + 1] ELSE "deleted",
                       !.process_status = IF i < Len(DeleteOrder) THEN @ ELSE DELETED]
    /\ DeleteUnchanged

\* The response is sent; the next request for the upload comes
DeleteRequestReturn ==
    /\ deletion.pc \in {"error", "401", "400", "failed"}
    /\ deletion' = [deletion EXCEPT !.pc = "idle"]
    /\ DeleteUnchanged

DeleteNext ==
    \/ OtherProcessStarts
    \/ OtherProcessEnds
    \/ DeleteRequestCheck
    \/ DeleteRequestStart
    \/ DeleteUploadBegin
    \/ \E i \in 1..Len(DeleteOrder) : DeleteUploadLocal(i)
    \/ DeleteRequestReturn

SpecDelete == DeleteInit /\ [][DeleteNext]_vars

DeleteAccepted == deletion.pc # "accepted" /\ deletion'.pc = "accepted"

NothingRemains ==
    /\ ~deletion.index
    /\ ~deletion.partial_archives
    /\ ~deletion.staging_files
    /\ ~deletion.public_files
    /\ ~deletion.records

\* C34: delete is accepted only when the upload is not processing and, if
\* the upload is published, only from an admin; the upload is removed from
\* the search index, then its partial archives, then its files, then its
\* records; after a completed delete nothing of the upload remains.
C34_DeleteRemovesEverything ==
    [][/\ DeleteAccepted => /\ deletion.process_status \notin STATUSES_PROCESSING
                            /\ deletion.published => deletion.is_admin
       /\ IsPrefix(deletion'.removed, DeleteOrder)
       /\ deletion'.pc = "deleted" => NothingRemains']_vars

\* What the code keeps of C34: the acceptance and the order, and that the
\* index documents, the partial archives, the records and the files of
\* self.upload_files are gone after a completed delete
C34_DeleteRemovesUploadFiles ==
    [][/\ DeleteAccepted => /\ deletion.process_status \notin STATUSES_PROCESSING
                            /\ deletion.published => deletion.is_admin
       /\ IsPrefix(deletion'.removed, DeleteOrder)
       /\ deletion'.pc = "deleted"
             => /\ ~deletion'.index
                /\ ~deletion'.partial_archives
                /\ ~deletion'.records
                /\ IF deletion'.published THEN ~deletion'.public_files
                   ELSE ~deletion'.staging_files]_vars


\* ------------------------------------------------------------------------
\* The staging and the public files of an upload: Upload.publish_upload and
\* Upload.process_upload
\* ------------------------------------------------------------------------

\* An upload at rest: in staging and processed, or published with its
\* public files and without staging files. The files of an area are
\* "none", "complete", or "partial" (what an interrupted write has left).
AreasInit ==
    /\ ProcessingInit
    /\ staging_raw = {}
    /\ entries = [m \in PackMainfiles |-> NoEntry]
    /\ listdir_order = "ascending"
    /\ raw_zip = [public |-> {}, restricted |-> {}]
    /\ is_frozen = FALSE
    /\ repacked = FALSE
    /\ last_read = NoRead
    /\ staging_archive = {}
    /\ archive_msg = [public |-> {}, restricted |-> {}]
    /\ PublishIdle
    /\ BundleIdle
    /\ RunIdle
    /\ StepIdle
    /\ task = NoTask
    /\ parse_all_call = NoParseAll
    /\ deletion = NoDeletion
    /\ \E published \in BOOLEAN, publish_directly \in BOOLEAN, status \in {SUCCESS, FAILURE},
          is_admin \in BOOLEAN :
          areas = [pc |-> "idle",
                   is_admin |-> is_admin,
                   file_operation |-> "none",
                   unprocessed |-> {},
                   publish_time |-> published,
                   publish_directly |-> publish_directly,
                   process_status |-> IF published THEN SUCCESS ELSE status,
                   staging_files |-> IF published THEN "none" ELSE "complete",
                   public_files |-> IF published THEN "complete" ELSE "none",
                   packed |-> published,
                   failed_in |-> "none",
                   reprocessed |-> FALSE]

AreasUnchanged ==
    /\ UNCHANGED <<staging_raw, entries, listdir_order, raw_zip, is_frozen, repacked,
                   last_read, archivevars, pubvars, bundlevars, runvars, stepvars, task,
                   parse_all_call, deletion>>
    /\ UNCHANGED procvars

\* The process fails with an exception raised in `step`
failed(a, step) ==
    [a EXCEPT !.pc = "idle", !.process_status = FAILURE, !.failed_in = step]

\* Upload._cleanup_staging_files
cleanup_staging_files(a) ==
    IF a.publish_time /\ a.public_files # "none"
    THEN [a EXCEPT !.staging_files = "none"]
    ELSE a

\* post_upload_action_publish accepts (the upload is not published, not
\* processing, not failed and has processed entries) and a worker runs
\* Upload.publish_upload: pack, search.publish, the staging files deleted,
\* publish_time set and saved
AreasPublishUpload ==
    /\ areas.pc = "idle"
    /\ ~areas.publish_time
    /\ areas.process_status = SUCCESS
    /\ \E search_works \in BOOLEAN :
          areas' =
              IF ~binds(pack_signature, 1, {"with_embargo"})
              THEN failed(areas, "publish_upload")
              ELSE IF ~search_works
              THEN [failed(areas, "publish_upload") EXCEPT
                       !.public_files = "complete", !.packed = TRUE]
              ELSE [areas EXCEPT !.public_files = "complete", !.packed = TRUE,
                                 !.staging_files = "none", !.publish_time = TRUE,
                                 !.failed_in = "none"]
    /\ AreasUnchanged

\* post_upload_action_process, put_upload_raw_path, delete_upload_raw_path:
\* the request of the user is accepted (the upload is not processing; a
\* published upload only for an admin and only to process it again) and
\* process_upload is called, with the file operation if there is one
AreasProcessRequest ==
    /\ areas.pc = "idle"
    /\ areas.publish_time => areas.is_admin
    /\ \E op \in {"none", "ADD", "DELETE"} :
          /\ areas.publish_time => op = "none"
          /\ areas' = [areas EXCEPT !.pc = "pending", !.process_status = PENDING,
                                    !.file_operation = op,
                                    !.failed_in = "none",
                                    !.reprocessed = areas.publish_time]
    /\ AreasUnchanged

\* A worker starts Upload.process_upload
AreasProcessUploadBegin ==
    /\ areas.pc = "pending"
    /\ areas' = [areas EXCEPT !.pc = "update_files", !.process_status = RUNNING]
    /\ AreasUnchanged

\* Upload.update_files: for a published upload the staging files are
\* removed and the public files extracted to staging; for another upload
\* the staging files are created if there are none, and the file operation
\* is carried out. An exception fails the process.
AreasUpdateFiles ==
    /\ areas.pc = "update_files"
    /\ \E works \in BOOLEAN :
          areas' =
              IF areas.publish_time /\ areas.public_files # "none"
              THEN IF works
                   THEN [areas EXCEPT !.pc = "parse_all", !.staging_files = "complete"]
                   ELSE [failed(areas, "update_files") EXCEPT !.staging_files = "partial"]
              ELSE IF works \/ areas.file_operation = "none"
                   THEN [areas EXCEPT !.pc = "parse_all",
                                      !.staging_files = IF @ = "none" THEN "complete" ELSE @]
                   ELSE failed(areas, "update_files")
    /\ AreasUnchanged

\* Upload.parse_all: the entries are queued and the upload waits for them,
\* or an exception is raised: "if self.published:
\* self._cleanup_staging_files()", and the process fails
AreasParseAll ==
    /\ areas.pc = "parse_all"
    /\ \E raises \in BOOLEAN :
          areas' =
              IF raises
              THEN failed(cleanup_staging_files(areas), "parse_all")
              ELSE [areas EXCEPT !.pc = "waiting", !.process_status = WAITING_FOR_RESULT,
                                 !.unprocessed = RunMainfiles]
    /\ AreasUnchanged

\* An entry task ends; its check_join finds entries that are not processed
AreasEntryProcessed ==
    /\ areas.pc = "waiting"
    /\ \E m \in areas.unprocessed :
          areas' = [areas EXCEPT !.unprocessed = @ \ {m}]
    /\ AreasUnchanged

\* Upload.check_join of the caller that joins: cleanup (search.refresh,
\* _cleanup_after_processing) and succeed; an exception fails the process.
\* _cleanup_after_processing packs a published upload again and then calls
\* _cleanup_staging_files; it publishes an upload with publish_directly.
AreasCleanup ==
    /\ areas.pc = "waiting"
    /\ areas.unprocessed = {}
    /\ \E refresh_works \in BOOLEAN :
          areas' =
              IF ~refresh_works
              THEN failed(areas, "cleanup")
              ELSE IF areas.publish_time
              THEN IF ~binds(pack_signature, 1, {"with_embargo", "create", "include_raw"})
                   THEN failed(areas, "cleanup")
                   ELSE [cleanup_staging_files(areas) EXCEPT
                            !.pc = "idle", !.process_status = SUCCESS]
              ELSE IF areas.publish_directly
              THEN IF ~binds(pack_signature, 1, {"with_embargo"})
                   THEN failed(areas, "cleanup")
                   ELSE [areas EXCEPT !.pc = "idle", !.process_status = SUCCESS,
                                      !.public_files = "complete", !.packed = TRUE,
                                      !.staging_files = "none", !.publish_time = TRUE]
              ELSE [areas EXCEPT !.pc = "idle", !.process_status = SUCCESS]
    /\ AreasUnchanged

AreasNext ==
    \/ AreasPublishUpload
    \/ AreasProcessRequest
    \/ AreasProcessUploadBegin
    \/ AreasUpdateFiles
    \/ AreasParseAll
    \/ AreasEntryProcessed
    \/ AreasCleanup

SpecAreas == AreasInit /\ [][AreasNext]_vars

\* C37: whenever an upload is published its public files exist, and
\* whenever it is published and not processing it has no staging
\* directory; publish_time is set only when pack has written the public
\* files; the reprocess of a published upload has removed the staging
\* directory when it has ended, with success or with a failure of
\* parse_all.
C37_PublishedHasNoStaging ==
    (areas.pc # "none" /\ areas.publish_time) =>
        /\ areas.public_files # "none"
        /\ areas.packed
        /\ areas.process_status \notin STATUSES_PROCESSING
              => areas.staging_files = "none"

\* What the code keeps of C37: a published upload has its public files,
\* publish_time is set only after pack, and the staging directory is
\* removed when parse_all has failed and when cleanup has succeeded
C37_StagingRemovedUnlessFailed ==
    (areas.pc # "none" /\ areas.publish_time) =>
        /\ areas.public_files # "none"
        /\ areas.packed
        /\ (/\ areas.process_status \notin STATUSES_PROCESSING
            /\ areas.failed_in \notin {"update_files", "cleanup"})
              => areas.staging_files = "none"

\* The reprocess of a published upload has failed in parse_all
C37_ParseAllFailed ==
    /\ areas.pc = "idle"
    /\ areas.publish_time
    /\ areas.reprocessed
    /\ areas.failed_in = "parse_all"
    /\ areas.staging_files = "none"


\* ------------------------------------------------------------------------
\* The range of embargo_length
\* ------------------------------------------------------------------------

\* C35: the embargo_length that is stored for an upload is between 0 and
\* 36, for the upload that publish and set_upload_metadata work on and for
\* the upload that import_bundle writes, with the values of the bundle.
C35_EmbargoLengthInRange ==
    /\ embargo_length \in 0..36
    /\ target.upload.exists => target.upload.embargo_length \in 0..36

\* What the code keeps of C35: publish and set_upload_metadata store no
\* embargo_length out of the range
C35_RequestsKeepRange == embargo_length \in 0..36

\* import_bundle has ended and the imported upload is stored
C35_ImportedUploadStored ==
    /\ target.result \in {SUCCESS, FAILURE}
    /\ target.upload.exists


\* ------------------------------------------------------------------------
\* The packed files and the stored embargo_length
\* ------------------------------------------------------------------------

\* The packed files are those of an upload with, or without, embargo
PackedWithEmbargo ==
    /\ raw_zip.public = {}
    /\ archive_msg.public = {}

PackedWithoutEmbargo ==
    \A id \in Entries :
        /\ raw_path_of(calcs[id].mainfile) \in raw_zip.public
        /\ \E rec \in archive_msg.public : rec.calc_id = raw_path_of(calcs[id].mainfile)

\* C36: whenever a published upload is not processing, its packed files
\* agree with the stored embargo_length: with embargo_length > 0 raw-public
\* holds no file and archive-public no record, with embargo_length = 0 the
\* mainfile of every entry is in raw-public and its record in
\* archive-public; also after a set_upload_metadata whose repack failed.
C36_PackedFilesAgreeWithEmbargo ==
    (publish_time /\ ~process_running) =>
        IF embargo_length > 0 THEN PackedWithEmbargo ELSE PackedWithoutEmbargo


\* ------------------------------------------------------------------------
\* A failed write in re_pack
\* ------------------------------------------------------------------------

\* The step replaces or modifies the original file
OriginalChanges(file) == public_dir'[Original(file)] # public_dir[Original(file)]

\* A write of re_pack has failed: a repacked file is there and is not
\* complete
RepackedWriteFailed == \E file \in PublicFiles : public_dir[Repacked(file)] = "partial"

\* C38: if the write of a repacked file fails during re_pack, no original
\* public file is replaced or modified; an original is overwritten only by
\* a repacked file that was written completely.
C38_FailedWriteKeepsOriginals ==
    [][\A file \in PublicFiles :
          OriginalChanges(file) =>
              /\ public_dir[Repacked(file)] = "new"
              /\ public_dir'[Original(file)] = "new"
              /\ ~RepackedWriteFailed]_vars

\* What the code keeps of C38: an original is changed only by the move of
\* its repacked file, after the writing has ended
C38_OriginalsChangeOnlyByMove ==
    [][\A file \in PublicFiles :
          OriginalChanges(file) =>
              /\ re_pack_pc = At("move", file)
              /\ public_dir'[Original(file)] = public_dir[Repacked(file)]]_vars


\* ------------------------------------------------------------------------
\* The callers of check_join and the status of the upload
\* ------------------------------------------------------------------------

\* The caller p of check_join goes on to cleanup after its
\* find_one_and_update
GoesOnToCleanup(p) == procs[p].pc = "cas" /\ procs'[p].pc = "cleanup"

\* The step is one of caller p before cleanup: it evaluates the join
\* condition or calls find_one_and_update
EvaluatesJoin(p) ==
    /\ procs[p].pc \in {"reload", "total", "processed", "cas"}
    /\ procs'[p] # procs[p]

\* C39: in check_join only the caller that won the compare-and-set on
\* joined (it found joined not true and set it) goes on to change the
\* process_status of the upload; a caller that lost it, or for which the
\* join condition does not hold, leaves the status as it is, so that a
\* SUCCESS of the upload is not replaced by FAILURE through a later
\* check_join.
C39_OnlyTheWinnerSetsStatus ==
    [][/\ \A p \in ProcIds : GoesOnToCleanup(p) => joined # TRUE
       /\ \A p \in ProcIds : EvaluatesJoin(p) => process_status' = process_status
       /\ ~(process_status = SUCCESS /\ process_status' = FAILURE)]_vars

\* What the code keeps of C39: a caller for which the join condition does
\* not hold, and every caller up to its find_one_and_update, leaves the
\* status of the upload as it is
C39_NoChangeBeforeCleanup ==
    [][\A p \in ProcIds : EvaluatesJoin(p) => process_status' = process_status]_vars


\* ------------------------------------------------------------------------
\* joined at the start of a processing run
\* ------------------------------------------------------------------------

\* A request is accepted and starts the next run of the upload
RunStarts == nruns' = nruns + 1

\* Run r begins its parse_all: process_upload_local after update_files, or
\* import_bundle with trigger_processing
ParseAllBegins(r) ==
    /\ procs[<<r, UploadProc>>].pc = "started"
    /\ procs'[<<r, UploadProc>>].pc = "reset"

\* An entry of run r completes, by its task or by the stop command
EntryCompletes(r) ==
    \E m \in Mainfiles :
        /\ procs[<<r, m>>].pc \in {"queued", "running"}
        /\ procs'[<<r, m>>].pc = "reload"

\* A caller of check_join comes back from find_one_and_update
LeavesCAS(p) == procs[p].pc = "cas" /\ procs'[p] # procs[p]

C40_UnjoinedUntilOwnJoin ==
    [][\A r \in Runs :
          (r = nruns /\ (ParseAllBegins(r) \/ EntryCompletes(r)) /\ cleanups = 0)
              => joined = FALSE]_vars

====
